---- MODULE Spec2Model ----
(***************************************************************************)
(* A model of the pattern detection engine of databricks-patterns          *)
(* (detectors/engine.py): the rule catalog an engine holds, its regex      *)
(* cache, and the analyze_string / analyze_file / analyze_directory        *)
(* operations with the AnalysisResult each returns; of the reporter        *)
(*                                                                         *)
(* (detectors/reporter.py) and of the command line (cli.py).               *)
(*                                                                         *)
(* Text is a sequence of pieces: single characters where a character       *)
(* matters, whole words elsewhere.  A path is a sequence of components,    *)
(* each a record [stem, ext]; a regex is a sequence of tokens.             *)
(***************************************************************************)
EXTENDS Integers, Sequences, FiniteSets, TLC

VARIABLES
    patterns,           \* self.patterns: insertion-ordered category -> rule list
    include_info,       \* self.include_info
    compiled_patterns,  \* self._compiled_patterns: regex text -> compiled regex
    call,               \* the last operation called on the engine, with its arguments
    outcome,            \* how that call ended: "returned" or the exception raised
    result,             \* the AnalysisResult it returned, or the one it was given
    output,             \* what a reporter, the command line or an analyzer produced
    given_patterns,     \* the mapping the caller handed to the engine, as the caller holds it
    aliased             \* self.patterns is that very mapping, not a mapping of the engine's own

vars == <<patterns, include_info, compiled_patterns, call, outcome, result, output,
          given_patterns, aliased>>

\* ------------------------------------------------------------------ bounds

\* Longest rule list handed to add_patterns.
MaxRules == 2

\* Most violations in a result handed to the reporter.
MaxViolations == 3

\* ------------------------------------------------------------------ text

RECURSIVE SeqSum(_)
SeqSum(s) == IF s = <<>> THEN 0 ELSE Head(s) + SeqSum(Tail(s))

RECURSIVE Flatten(_)
Flatten(ss) == IF ss = <<>> THEN <<>> ELSE Head(ss) \o Flatten(Tail(ss))

Range(s) == {s[i] : i \in DOMAIN s}

\* re.IGNORECASE: characters are compared after case folding.
casefold(c) == IF c = "A" THEN "a" ELSE IF c = "B" THEN "b" ELSE c

\* str.splitlines(): "\n", "\r" and "\r\n" each end a line; the terminators are
\* dropped and a trailing terminator opens no further (empty) line.
\* The positions where a line ends: a "\n", or a "\r" that no "\n" follows.
line_ends(s) ==
    {i \in 1..Len(s) :
        s[i] = "\n" \/ (s[i] = "\r" /\ ~(i < Len(s) /\ s[i + 1] = "\n"))}

splitlines(s) ==
    LET ends     == line_ends(s)
        n        == Cardinality(ends)
        end(k)   == CHOOSE e \in ends : Cardinality({x \in ends : x < e}) = k - 1
        start(k) == IF k = 1 THEN 1 ELSE end(k - 1) + 1
        stop(k)  == IF s[end(k)] = "\n" /\ end(k) > 1 /\ s[end(k) - 1] = "\r"
                    THEN end(k) - 2 ELSE end(k) - 1
        rest     == IF n = 0 THEN 1 ELSE end(n) + 1
    IN  [k \in 1..(IF rest <= Len(s) THEN n + 1 ELSE n) |->
            IF k <= n THEN SubSeq(s, start(k), stop(k)) ELSE SubSeq(s, rest, Len(s))]

\* ------------------------------------------------------------------ regex

\* re.compile(regex_str, re.IGNORECASE | re.MULTILINE).  A regex text is a
\* sequence of literal characters and of two kinds of token that do not
\* compile: "(" opens a group that is never closed (re.error), "{N}" is a
\* repetition count of MAXREPEAT or more (OverflowError).
re_compile(regex_str) ==
    IF "(" \in Range(regex_str) THEN "re.error"
    ELSE IF "{N}" \in Range(regex_str) THEN "OverflowError"
    ELSE "ok"

\* compiled.search(text): the literal occurs somewhere in text, case folded.
re_search(compiled, text) ==
    \E k \in 0..(Len(text) - Len(compiled)) :
        \A j \in 1..Len(compiled) : casefold(text[k + j]) = casefold(compiled[j])

\* ------------------------------------------------------------------ rules

\* Pattern (patterns/sql_execution.py): the fields the engine reads.  regex
\* <<>> is a rule without a regex body (None or ""); the description is the
\* rule's id; do_pattern, dont_pattern and fix_suggestion are absent.
Rule(id, severity, category, regex) ==
    [id |-> id, severity |-> severity, category |-> category,
     description |-> <<id>>, regex |-> regex]

\* The rules callers register: two that match different lines, one whose
\* regex only matches across a line break, an info rule sharing the first
\* one's regex text, one without a regex, and two that do not compile.
RulePool ==
    << Rule("R1", "error",   "safety", <<"a">>),
       Rule("R2", "warning", "safety", <<"b">>),
       Rule("R3", "error",   "safety", <<"a", "\n", "b">>),
       Rule("R4", "error",   "safety", <<"a", "{N}">>),
       Rule("R5", "info",    "config", <<"a">>),
       Rule("R6", "warning", "config", <<>>),
       Rule("R7", "warning", "config", <<"(">>) >>

\* The rules a category's lists are drawn from, as indices of the pool.
CategoryPool(category) ==
    IF category = "sql_execution" THEN 1..4 ELSE 5..7

\* Rule lists: rules of the pool in pool order, without repetition (rule ids
\* are unique across the catalog).
RuleLists(category) ==
    { l \in UNION { [1..n -> CategoryPool(category)] : n \in 0..MaxRules } :
        \A i \in 1..(Len(l) - 1) : l[i] < l[i + 1] }

RulesOf(l) == [i \in DOMAIN l |-> RulePool[l[i]]]

Categories == {"mcp_server", "sql_execution"}

\* The rules of all categories, the categories taken in name order.
all_rules_by_name(pats) ==
    Flatten([i \in DOMAIN pats |->
               LET first == CHOOSE k \in DOMAIN pats :
                              \A m \in DOMAIN pats : pats[k].category = "mcp_server"
                                                     \/ pats[m].category # "mcp_server"
               IN  IF i = 1 THEN pats[first].rules
                   ELSE pats[CHOOSE k \in DOMAIN pats : k # first].rules])

\* dict.items(): the rules of all categories, in category insertion order
\* and rule order inside a category.
all_rules(pats) == Flatten([i \in DOMAIN pats |-> pats[i].rules])

\* ------------------------------------------------------------------ results

\* AnalysisResult(files_analyzed=n)
AnalysisResult(n) == [violations |-> <<>>, files_analyzed |-> n, patterns_checked |-> 0]

Violation(pattern, file_path, line_num, line) ==
    [pattern_id   |-> pattern.id,
     severity     |-> pattern.severity,
     category     |-> pattern.category,
     description  |-> pattern.description,
     file_path    |-> file_path,
     line_number  |-> line_num,
     line_content |-> line]

\* A count of the rules with an error violation, not of the violations.
error_rule_count(r) ==
    Cardinality({r.violations[i].pattern_id :
                   i \in {k \in DOMAIN r.violations : r.violations[k].severity = "error"}})

error_count(r)   == Cardinality({i \in DOMAIN r.violations : r.violations[i].severity = "error"})
warning_count(r) == Cardinality({i \in DOMAIN r.violations : r.violations[i].severity = "warning"})
info_count(r)    == Cardinality({i \in DOMAIN r.violations : r.violations[i].severity = "info"})

\* ------------------------------------------------------------------ engine

\* A cache keyed by the rule's category instead of its regex text.
cache_key_by_category(pattern) == <<pattern.category>>

\* The key under which _check_regex_pattern caches a compiled regex.
cache_key(pattern) == pattern.regex

\* A filter that lets every severity through.
info_never_skipped(inc, pattern) == FALSE

\* The severity filter of analyze_file and analyze_string.
info_skipped(inc, pattern) == ~inc /\ pattern.severity = "info"

\* A scan that numbers the lines from 0.
RECURSIVE scan_lines_from_zero(_, _, _, _, _)
scan_lines_from_zero(compiled, pattern, file_path, lines, line_num) ==
    IF line_num > Len(lines) THEN <<>>
    ELSE (IF re_search(compiled, lines[line_num])
          THEN <<Violation(pattern, file_path, line_num - 1, lines[line_num])>>
          ELSE <<>>)
         \o scan_lines_from_zero(compiled, pattern, file_path, lines, line_num + 1)

\* The scan loop of _check_regex_pattern: one Violation per matching line,
\* numbered from 1, carrying the line as splitlines() gave it.
RECURSIVE scan_lines(_, _, _, _, _)
scan_lines(compiled, pattern, file_path, lines, line_num) ==
    IF line_num > Len(lines) THEN <<>>
    ELSE (IF re_search(compiled, lines[line_num])
          THEN <<Violation(pattern, file_path, line_num, lines[line_num])>>
          ELSE <<>>)
         \o scan_lines(compiled, pattern, file_path, lines, line_num + 1)

\* _check_regex_pattern: the violations of one rule, the cache afterwards, and
\* the exception that escapes, if any.
check_regex_pattern(cache, content, pattern, file_path) ==
    LET regex_str == pattern.regex
        key       == cache_key(pattern)
        status    == IF key \in DOMAIN cache THEN "ok" ELSE re_compile(regex_str)
        cache2    == IF key \in DOMAIN cache \/ status # "ok" THEN cache
                     ELSE [k \in DOMAIN cache \cup {key} |->
                              IF k = key THEN regex_str ELSE cache[k]]
    IN  IF regex_str = <<>>
        THEN [violations |-> <<>>, cache |-> cache, raised |-> "none"]
        ELSE IF status = "re.error"
        THEN [violations |-> <<>>, cache |-> cache, raised |-> "none"]
        ELSE IF status # "ok"
        THEN [violations |-> <<>>, cache |-> cache, raised |-> status]
        ELSE [violations |-> scan_lines(cache2[key], pattern, file_path,
                                        splitlines(content), 1),
              cache |-> cache2, raised |-> "none"]

\* A count taken after the filters: only the rules whose regex is applied.
count_check_after_filters(res, inc, pattern) ==
    IF (~inc /\ pattern.severity = "info") \/ pattern.regex = <<>> THEN res
    ELSE [res EXCEPT !.patterns_checked = @ + 1]

\* result.patterns_checked += 1: every rule counts, before the filters.
count_check(res, inc, pattern) == [res EXCEPT !.patterns_checked = @ + 1]

\* The loop "for category, patterns in self.patterns.items(): for pattern in
\* patterns" shared by analyze_file and analyze_string, from rule i on.
RECURSIVE run_checks(_, _, _, _, _, _, _)
run_checks(rules, i, inc, content, file_path, cache, res) ==
    IF i > Len(rules) THEN [result |-> res, cache |-> cache, raised |-> "none"]
    ELSE LET pattern == rules[i]
             counted == count_check(res, inc, pattern)
         IN  IF info_skipped(inc, pattern) \/ pattern.regex = <<>>
             THEN run_checks(rules, i + 1, inc, content, file_path, cache, counted)
             ELSE LET c == check_regex_pattern(cache, content, pattern, file_path)
                  IN  IF c.raised # "none"
                      THEN [result |-> counted, cache |-> c.cache, raised |-> c.raised]
                      ELSE run_checks(rules, i + 1, inc, content, file_path, c.cache,
                                      [counted EXCEPT !.violations = @ \o c.violations])

\* analyze_string(content, file_name=file_name) on an engine in the given state.
analyze_string(pats, inc, cache, content, file_name) ==
    run_checks(all_rules(pats), 1, inc, content, file_name, cache, AnalysisResult(1))

\* ------------------------------------------------------------------ paths

\* One path component: "a.py" is [stem |-> "a", ext |-> ".py"].
N(stem, ext) == [stem |-> stem, ext |-> ext]

\* Path(p): pathlib drops the "." components of what it is given.
Path(raw) == SelectSeq(raw, LAMBDA c : c # N(".", ""))

\* str.lower() on a suffix.
lower(ext) == IF ext = ".PY" THEN ".py" ELSE ext

\* file_path.suffix.lower(): a name that is only a suffix has none.
suffix_lower(path) ==
    IF path = <<>> \/ path[Len(path)].stem = "" THEN ""
    ELSE lower(path[Len(path)].ext)

PYTHON_EXTENSIONS   == {".py", ".pyi"}
SQL_EXTENSIONS      == {".sql"}
JSON_EXTENSIONS     == {".json"}
NOTEBOOK_EXTENSIONS == {".ipynb"}
ALL_EXTENSIONS ==
    PYTHON_EXTENSIONS \cup SQL_EXTENSIONS \cup JSON_EXTENSIONS \cup NOTEBOOK_EXTENSIONS

\* The file system the engine runs on, in directory-listing order, paths
\* relative to the working directory.  read is what read_text(encoding=
\* "utf-8") does on the entry; opening a directory fails with an OSError.
File(path, read, content) ==
    [path |-> path, kind |-> "file", read |-> read, content |-> content]
Dir(path) ==
    [path |-> path, kind |-> "dir", read |-> "OSError", content |-> <<>>]

FS ==
    << File(<<N("proj", ""), N("a", ".py")>>,                    "ok", <<"b", "\r", "\n", "a", "b">>),
       File(<<N("proj", ""), N("venv", ""), N("x", ".py")>>,     "ok", <<"a">>),
       File(<<N("proj", ""), N("venv", ""), N("lib", ""), N("y", ".py")>>, "ok", <<"A", "\n">>),
       Dir (<<N("proj", ""), N("d", ".json")>>),
       File(<<N("proj", ""), N("notes", ".txt")>>,               "ok", <<"a">>),
       File(<<N("proj", ""), N("bad", ".sql")>>,                 "OSError", <<"a">>),
       File(<<N("proj", ""), N("bin", ".ipynb")>>,               "UnicodeDecodeError", <<"a">>),
       File(<<N("proj", ""), N("one", ""), N("only", ".pyi")>>,  "ok", <<"c", "\n", "c">>) >>

IsPrefix(p, q) == Len(p) <= Len(q) /\ SubSeq(q, 1, Len(p)) = p

\* Every path that exists: the entries and the directories above them.
ExistingPaths ==
    UNION { { SubSeq(FS[i].path, 1, n) : n \in 0..Len(FS[i].path) } : i \in DOMAIN FS }

\* Path.exists()
exists(path) == path \in ExistingPaths

\* The entries by path; a directory that only holds entries is a directory.
EntryAt ==
    [path \in ExistingPaths |->
        IF \E i \in DOMAIN FS : FS[i].path = path
        THEN FS[CHOOSE i \in DOMAIN FS : FS[i].path = path]
        ELSE Dir(path)]

\* read_text(encoding="utf-8") decodes with universal newlines: "\r\n" and
\* "\r" both read as "\n".
RECURSIVE universal_newlines(_)
universal_newlines(s) ==
    IF s = <<>> THEN <<>>
    ELSE IF Head(s) = "\r" /\ Len(s) > 1 /\ s[2] = "\n"
         THEN <<"\n">> \o universal_newlines(Tail(Tail(s)))
    ELSE IF Head(s) = "\r" THEN <<"\n">> \o universal_newlines(Tail(s))
    ELSE <<Head(s)>> \o universal_newlines(Tail(s))

\* What read_text gives for each path, or the exception it raises.
ReadText ==
    [path \in ExistingPaths |->
        IF EntryAt[path].read = "ok"
        THEN [raised |-> "none", text |-> universal_newlines(EntryAt[path].content)]
        ELSE [raised |-> EntryAt[path].read, text |-> <<>>]]

\* ------------------------------------------------------------------ files

\* A handler that forgets the decode error.
CaughtOSErrorOnly == {"OSError"}

\* except (OSError, UnicodeDecodeError) around read_text.
CaughtReadErrors == {"OSError", "UnicodeDecodeError"}

\* An analyze_file that reports the path as it was given.
analyze_file_raw_name(pats, inc, cache, raw_path) ==
    LET file_path == Path(raw_path)
        empty     == [result |-> AnalysisResult(1), cache |-> cache, raised |-> "none"]
    IN  IF ~exists(file_path) THEN empty
        ELSE IF suffix_lower(file_path) \notin ALL_EXTENSIONS THEN empty
        ELSE IF ReadText[file_path].raised \in CaughtReadErrors THEN empty
        ELSE IF ReadText[file_path].raised # "none"
        THEN [result |-> AnalysisResult(1), cache |-> cache,
              raised |-> ReadText[file_path].raised]
        ELSE run_checks(all_rules(pats), 1, inc, ReadText[file_path].text, raw_path,
                        cache, AnalysisResult(1))

\* analyze_file(file_path) on an engine in the given state.
analyze_file(pats, inc, cache, raw_path) ==
    LET file_path == Path(raw_path)
        empty     == [result |-> AnalysisResult(1), cache |-> cache, raised |-> "none"]
    IN  IF ~exists(file_path) THEN empty
        ELSE IF suffix_lower(file_path) \notin ALL_EXTENSIONS THEN empty
        ELSE IF ReadText[file_path].raised \in CaughtReadErrors THEN empty
        ELSE IF ReadText[file_path].raised # "none"
        THEN [result |-> AnalysisResult(1), cache |-> cache,
              raised |-> ReadText[file_path].raised]
        ELSE run_checks(all_rules(pats), 1, inc, ReadText[file_path].text, file_path,
                        cache, AnalysisResult(1))

\* ------------------------------------------------------------------ directories

\* One component of a glob: "**" or "*" (any name), a literal name, or "*.ext".
AnyName       == [kind |-> "any",  stem |-> "",   ext |-> ""]
Named(stem)   == [kind |-> "name", stem |-> stem, ext |-> ""]
Suffixed(ext) == [kind |-> "ext",  stem |-> "",   ext |-> ext]

\* fnmatch.fnmatchcase(part, pat) for these components.
fnmatchcase(part, pat) ==
    CASE pat.kind = "any"  -> TRUE
      [] pat.kind = "name" -> part.stem = pat.stem /\ part.ext = pat.ext
      [] pat.kind = "ext"  -> part.ext = pat.ext

\* PurePath.match(pattern) for a relative pattern: the pattern's components
\* are matched against the path's last components, one to one; "**" stands
\* for exactly one component.
path_match(path, pat) ==
    /\ Len(pat) <= Len(path)
    /\ \A k \in 0..(Len(pat) - 1) :
          fnmatchcase(path[Len(path) - k], pat[Len(pat) - k])

\* "**/name/**"
Under(name) == <<AnyName, Named(name), AnyName>>

\* The default of exclude_patterns.
DEFAULT_EXCLUDES ==
    << Under("venv"), Under(".venv"), Under("node_modules"),
       Under("__pycache__"), Under(".git") >>

excluded(path, exclude_patterns) ==
    \E i \in DOMAIN exclude_patterns : path_match(path, exclude_patterns[i])

\* any(file_path.match(p) for p in exclude_patterns) raises ValueError("empty
\* pattern") when it comes to a glob without components ("" or "."), <<>>
\* here, before a glob that matches.
match_raises(path, exclude_patterns) ==
    \E i \in DOMAIN exclude_patterns :
        /\ exclude_patterns[i] = <<>>
        /\ \A j \in 1..(i - 1) : ~path_match(path, exclude_patterns[j])

\* directory.rglob("*" + ext) or directory.glob("*" + ext): every entry, file
\* or directory, below the directory whose name ends with ext, in listing
\* order.
Glob ==
    [directory \in ExistingPaths, recursive \in BOOLEAN, ext \in ALL_EXTENSIONS |->
        LET hit(i) == /\ IsPrefix(directory, FS[i].path)
                      /\ IF recursive THEN Len(FS[i].path) > Len(directory)
                                      ELSE Len(FS[i].path) = Len(directory) + 1
                      /\ FS[i].path[Len(FS[i].path)].ext = ext
            found  == SelectSeq([i \in DOMAIN FS |-> i], hit)
        IN  [j \in DOMAIN found |-> FS[found[j]].path]]

\* An enumeration whose glob for .py is "*.py*", which takes in .pyi names as
\* well.
iter_files_overlapping(directory, recursive, order) ==
    Flatten([k \in DOMAIN order |->
               Glob[directory, recursive, order[k]]
               \o (IF order[k] = ".py" THEN Glob[directory, recursive, ".pyi"] ELSE <<>>)])

\* _iter_files: the globs of the extensions, in the order the set yields them.
iter_files(directory, recursive, order) ==
    Flatten([k \in DOMAIN order |-> Glob[directory, recursive, order[k]]])

\* A loop that keeps the last file's patterns_checked instead of adding it.
RECURSIVE run_files_overwriting(_, _, _, _, _, _, _)
run_files_overwriting(files, i, pats, inc, exclude_patterns, cache, res) ==
    IF i > Len(files) THEN [result |-> res, cache |-> cache, raised |-> "none"]
    ELSE IF match_raises(files[i], exclude_patterns)
    THEN [result |-> res, cache |-> cache, raised |-> "ValueError"]
    ELSE IF excluded(files[i], exclude_patterns)
    THEN run_files_overwriting(files, i + 1, pats, inc, exclude_patterns, cache, res)
    ELSE LET f == analyze_file(pats, inc, cache, files[i])
         IN  IF f.raised # "none"
             THEN [result |-> res, cache |-> f.cache, raised |-> f.raised]
             ELSE run_files_overwriting(files, i + 1, pats, inc, exclude_patterns, f.cache,
                     [violations       |-> res.violations \o f.result.violations,
                      files_analyzed   |-> res.files_analyzed + f.result.files_analyzed,
                      patterns_checked |-> f.result.patterns_checked])

\* The loop of analyze_directory over the enumerated paths, from path i on.
RECURSIVE run_files(_, _, _, _, _, _, _)
run_files(files, i, pats, inc, exclude_patterns, cache, res) ==
    IF i > Len(files) THEN [result |-> res, cache |-> cache, raised |-> "none"]
    ELSE IF match_raises(files[i], exclude_patterns)
    THEN [result |-> res, cache |-> cache, raised |-> "ValueError"]
    ELSE IF excluded(files[i], exclude_patterns)
    THEN run_files(files, i + 1, pats, inc, exclude_patterns, cache, res)
    ELSE LET f == analyze_file(pats, inc, cache, files[i])
         IN  IF f.raised # "none"
             THEN [result |-> res, cache |-> f.cache, raised |-> f.raised]
             ELSE run_files(files, i + 1, pats, inc, exclude_patterns, f.cache,
                     [violations       |-> res.violations \o f.result.violations,
                      files_analyzed   |-> res.files_analyzed + f.result.files_analyzed,
                      patterns_checked |-> res.patterns_checked + f.result.patterns_checked])

\* An exclusion list that always holds the defaults, after the caller's globs.
merged_excludes(exclude_patterns) == exclude_patterns \o DEFAULT_EXCLUDES

\* exclude_patterns or [the defaults]: None and [] both give the defaults.
effective_excludes(exclude_patterns) ==
    IF exclude_patterns = <<>> THEN DEFAULT_EXCLUDES ELSE exclude_patterns

\* analyze_directory(directory, recursive=, exclude_patterns=).
analyze_directory(pats, inc, cache, order, directory, recursive, exclude_patterns) ==
    run_files(iter_files(Path(directory), recursive, order), 1, pats, inc,
              effective_excludes(exclude_patterns), cache, AnalysisResult(0))

\* ------------------------------------------------------------------ reporter

\* The characters of a file or directory name: a name is one piece, but for
\* the name that holds a line feed.
name_text(name) == IF name = "a\nb" THEN <<"a", "\n", "b">> ELSE <<name>>

\* The string a Violation's file_path holds: str(Path), components joined
\* by "/".
RECURSIVE str_path(_)
str_path(path) ==
    IF path = <<>> THEN <<>>
    ELSE name_text(path[1].stem)
         \o (IF path[1].ext = "" THEN <<>> ELSE <<path[1].ext>>)
         \o (IF Len(path) > 1 THEN <<"/">> \o str_path(Tail(path)) ELSE <<>>)

\* str.replace(old, new) for a one-character old.
RECURSIVE replace(_, _, _)
replace(text, old, new) ==
    IF text = <<>> THEN <<>>
    ELSE (IF Head(text) = old THEN new ELSE <<Head(text)>>)
         \o replace(Tail(text), old, new)

\* v.description.replace("%", "%25").replace("\n", "%0A")
escape_message(description) ==
    replace(replace(description, "%", <<"%", "25">>), "\n", <<"%", "0A">>)

\* level = "error" if v.severity == "error" else "warning"
github_level(severity) == IF severity = "error" THEN "error" ELSE "warning"

\* The string to_github_actions prints for one violation.
annotation(v) ==
    <<"::", github_level(v.severity), " file=">> \o str_path(v.file_path)
    \o <<",line=", ToString(v.line_number), "::", v.pattern_id, ": ">>
    \o escape_message(v.description)

\* to_github_actions: the strings printed, one print call each.
to_github_actions(r) == [k \in DOMAIN r.violations |-> annotation(r.violations[k])]

\* print(s, file=output) writes s and a line feed: the text that reaches the
\* sink after the given print calls.
written(printed) == Flatten([k \in DOMAIN printed |-> printed[k] \o <<"\n">>])

\* _sarif_level
sarif_level(severity) ==
    CASE severity = "error"   -> "error"
      [] severity = "warning" -> "warning"
      [] severity = "info"    -> "note"
      [] OTHER                -> "note"

\* A rule catalog with one entry per violation.
rules_per_violation(r) ==
    [k \in DOMAIN r.violations |->
        [id               |-> r.violations[k].pattern_id,
         name             |-> r.violations[k].pattern_id,
         shortDescription |-> r.violations[k].description,
         level            |-> sarif_level(r.violations[k].severity)]]

\* rules_seen.values(): one entry per pattern_id, made from the first
\* violation that carries it, in order of first appearance.
rules_seen(r) ==
    LET V     == r.violations
        first == SelectSeq([k \in DOMAIN V |-> k],
                           LAMBDA k : \A j \in 1..(k - 1) : V[j].pattern_id # V[k].pattern_id)
    IN  [n \in DOMAIN first |->
            [id               |-> V[first[n]].pattern_id,
             name             |-> V[first[n]].pattern_id,
             shortDescription |-> V[first[n]].description,
             level            |-> sarif_level(V[first[n]].severity)]]

\* to_sarif: the rules array of the driver and the results array of the run.
to_sarif(r) ==
    [rules   |-> rules_seen(r),
     results |-> [k \in DOMAIN r.violations |->
                    [ruleId    |-> r.violations[k].pattern_id,
                     level     |-> sarif_level(r.violations[k].severity),
                     message   |-> r.violations[k].description,
                     uri       |-> r.violations[k].file_path,
                     startLine |-> r.violations[k].line_number]]]

\* A status that fails on any violation.
status_by_violations(r) == IF Len(r.violations) = 0 THEN "PASS" ELSE "FAIL"

\* status = "PASS" if r.error_count == 0 else "FAIL"
status(r) == IF error_count(r) = 0 THEN "PASS" ELSE "FAIL"

\* format_summary: "[status] N files, E errors, W warnings, I info".
format_summary(r) ==
    <<"[", status(r), "] ", ToString(r.files_analyzed), " files, ",
      ToString(error_count(r)), " errors, ",
      ToString(warning_count(r)), " warnings, ",
      ToString(info_count(r)), " info">>

\* A filter that hands back the violations of a severity last one first.
by_severity_reversed(r, severity) ==
    LET vs == SelectSeq(r.violations, LAMBDA v : v.severity = severity)
    IN  [k \in DOMAIN vs |-> vs[Len(vs) + 1 - k]]

\* AnalysisResult.by_severity
by_severity(r, severity) == SelectSeq(r.violations, LAMBDA v : v.severity = severity)

\* str.strip(): leading and trailing whitespace removed.
Whitespace == {" ", "\t", "\n", "\r"}

RECURSIVE lstrip(_)
lstrip(text) ==
    IF text # <<>> /\ Head(text) \in Whitespace THEN lstrip(Tail(text)) ELSE text

RECURSIVE rstrip(_)
rstrip(text) ==
    IF text # <<>> /\ text[Len(text)] \in Whitespace
    THEN rstrip(SubSeq(text, 1, Len(text) - 1)) ELSE text

strip(text) == rstrip(lstrip(text))

\* v.line_content.strip()[:80]
shown_line(v) ==
    LET stripped == strip(v.line_content)
    IN  SubSeq(stripped, 1, IF Len(stripped) < 80 THEN Len(stripped) ELSE 80)

\* '=' * 60, '-' * 40
bar(ch, n) == [i \in 1..n |-> ch]

\* str.upper() of a word: the lower-case words written here; every other
\* piece has no lower-case letter.
upper(word) ==
    CASE word = "error"    -> "ERROR"
      [] word = "warning"  -> "WARNING"
      [] word = "info"     -> "INFO"
      [] word = "select"   -> "SELECT"
      [] word = "from"     -> "FROM"
      [] word = "limit"    -> "LIMIT"
      [] word = "a"        -> "A"
      [] word = "t"        -> "T"
      [] word = "my_table" -> "MY_TABLE"
      [] word = "catalog"  -> "CATALOG"
      [] word = "schema"   -> "SCHEMA"
      [] word = "table"    -> "TABLE"
      [] word = "selected" -> "SELECTED"
      [] OTHER             -> word

\* The ANSI colour of a severity and the reset sequence.
colors(severity) ==
    CASE severity = "error"   -> "ESC[91m"
      [] severity = "warning" -> "ESC[93m"
      [] severity = "info"    -> "ESC[94m"

severity_display(severity, color) ==
    IF color THEN <<colors(severity), upper(severity), "ESC[0m">>
    ELSE <<upper(severity)>>

\* _print_violation: the strings printed for one violation (the rules of
\* this model carry no DO, DON'T or fix text, so those lines are not
\* printed).
print_violation(v) ==
    << <<"\n[", v.pattern_id, "] ">> \o v.description,
       <<"  Location: ">> \o str_path(v.file_path) \o <<":", ToString(v.line_number)>>,
       <<"  Line: ">> \o shown_line(v) >>

\* The summary header of to_text.
text_header(r) ==
    << <<"\n">> \o bar("=", 60),
       <<"DATABRICKS PATTERN ANALYSIS REPORT">>,
       bar("=", 60),
       <<"Files analyzed: ", ToString(r.files_analyzed)>>,
       <<"Patterns checked: ", ToString(r.patterns_checked)>>,
       <<"Total violations: ", ToString(Len(r.violations))>>,
       <<"  Errors: ", ToString(error_count(r))>>,
       <<"  Warnings: ", ToString(warning_count(r))>>,
       <<"  Info: ", ToString(info_count(r))>>,
       bar("=", 60) \o <<"\n">> >>

\* One severity group of to_text: nothing when the group is empty.
text_group(r, severity, color) ==
    LET violations == by_severity(r, severity)
    IN  IF violations = <<>> THEN <<>>
        ELSE << <<"\n">> \o bar("-", 40),
                severity_display(severity, color)
                    \o <<" (", ToString(Len(violations)), ")">>,
                bar("-", 40) >>
             \o Flatten([k \in DOMAIN violations |-> print_violation(violations[k])])

\* to_text(color=color): the strings printed, one print call each.
to_text(r, color) ==
    text_header(r)
    \o (IF r.violations = <<>> THEN << <<"No violations found.">> >>
        ELSE text_group(r, "error", color)
             \o text_group(r, "warning", color)
             \o text_group(r, "info", color))

\* to_json: the report object that is dumped.
to_json(r) ==
    [summary    |-> [files_analyzed   |-> r.files_analyzed,
                     patterns_checked |-> r.patterns_checked,
                     total_violations |-> Len(r.violations),
                     errors           |-> error_count(r),
                     warnings         |-> warning_count(r),
                     info             |-> info_count(r)],
     violations |-> r.violations]

\* ------------------------------------------------------------------ analyzers

\* Finding(rule_id, message, line, column, severity); the suggestion, a fixed
\* text per rule, is left out.
Finding(rule_id, message, line, column, severity) ==
    [rule_id |-> rule_id, message |-> message, line |-> line,
     column |-> column, severity |-> severity]

\* search in text: text holds the pieces of search in a row.
contains(text, search) ==
    \E k \in 0..(Len(text) - Len(search)) :
        \A j \in 1..Len(search) : text[k + j] = search[j]

\* ------------------------------------------------------------------ JSON

\* A parsed JSON value: a mapping (items: its [key, value] pairs in
\* insertion order), a sequence (items: its elements), a string (s: its
\* pieces), a number, a boolean or null.
JValue(t, str, items) == [t |-> t, s |-> str, items |-> items]
JDict(items) == JValue("dict", <<>>, items)
JList(items) == JValue("list", <<>>, items)
JStr(str)    == JValue("str", str, <<>>)
JNull        == JValue("null", <<>>, <<>>)

\* d[key] = value on a dict under construction: a repeated key keeps its
\* place and takes the later value.
dict_set(items, key, value) ==
    IF \E i \in DOMAIN items : items[i].key = key
    THEN [i \in DOMAIN items |->
            IF items[i].key = key THEN [key |-> key, value |-> value] ELSE items[i]]
    ELSE Append(items, [key |-> key, value |-> value])

\* JSON whitespace, and the literals the scanner knows besides strings.
JsonSpace   == {" ", "\n", "\t", "\r"}
JsonNumbers == {"0", "5", "10"}

RECURSIVE skip_space(_, _)
skip_space(text, i) ==
    IF i <= Len(text) /\ text[i] \in JsonSpace THEN skip_space(text, i + 1) ELSE i

\* The quote that closes a string opened before i, 0 when there is none on
\* the line (a raw control character ends the scan; escapes are not among
\* the contents analysed here).
RECURSIVE closing_quote(_, _)
closing_quote(text, i) ==
    IF i > Len(text) \/ text[i] \in {"\n", "\r", "\t"} THEN 0
    ELSE IF text[i] = "\"" THEN i
    ELSE closing_quote(text, i + 1)

Failed(i)         == [ok |-> FALSE, value |-> JNull, next |-> i]
Parsed(value, i)  == [ok |-> TRUE, value |-> value, next |-> i]

\* The decoder of json.loads: a value at i, the members of an object from a
\* key at i, the elements of an array from an element at i.
RECURSIVE parse_value(_, _)
RECURSIVE parse_members(_, _, _)
RECURSIVE parse_elements(_, _, _)

parse_value(text, from) ==
    LET i == skip_space(text, from)
    IN  IF i > Len(text) THEN Failed(i)
        ELSE IF text[i] = "\""
             THEN LET j == closing_quote(text, i + 1)
                  IN  IF j = 0 THEN Failed(i)
                      ELSE Parsed(JStr(SubSeq(text, i + 1, j - 1)), j + 1)
        ELSE IF text[i] = "{"
             THEN LET k == skip_space(text, i + 1)
                  IN  IF k <= Len(text) /\ text[k] = "}" THEN Parsed(JDict(<<>>), k + 1)
                      ELSE parse_members(text, k, <<>>)
        ELSE IF text[i] = "["
             THEN LET k == skip_space(text, i + 1)
                  IN  IF k <= Len(text) /\ text[k] = "]" THEN Parsed(JList(<<>>), k + 1)
                      ELSE parse_elements(text, k, <<>>)
        ELSE IF text[i] = "null" THEN Parsed(JNull, i + 1)
        ELSE IF text[i] \in {"true", "false"} THEN Parsed(JValue("bool", <<>>, <<>>), i + 1)
        ELSE IF text[i] \in JsonNumbers THEN Parsed(JValue("num", <<>>, <<>>), i + 1)
        ELSE Failed(i)

parse_members(text, from, items) ==
    LET k == skip_space(text, from)
    IN  IF k > Len(text) \/ text[k] # "\"" THEN Failed(k)
        ELSE LET j == closing_quote(text, k + 1)
                 c == skip_space(text, j + 1)
             IN  IF j = 0 \/ c > Len(text) \/ text[c] # ":" THEN Failed(k)
                 ELSE LET v == parse_value(text, c + 1)
                          n == skip_space(text, v.next)
                          items2 == dict_set(items, SubSeq(text, k + 1, j - 1), v.value)
                      IN  IF ~v.ok THEN v
                          ELSE IF n > Len(text) THEN Failed(n)
                          ELSE IF text[n] = "}" THEN Parsed(JDict(items2), n + 1)
                          ELSE IF text[n] = "," THEN parse_members(text, n + 1, items2)
                          ELSE Failed(n)

parse_elements(text, from, items) ==
    LET v == parse_value(text, from)
        n == skip_space(text, v.next)
    IN  IF ~v.ok THEN v
        ELSE IF n > Len(text) THEN Failed(n)
        ELSE IF text[n] = "]" THEN Parsed(JList(Append(items, v.value)), n + 1)
        ELSE IF text[n] = "," THEN parse_elements(text, n + 1, Append(items, v.value))
        ELSE Failed(n)

\* json.loads(content): the value, or JSONDecodeError when the text is not
\* one JSON value.
json_loads(content) ==
    LET v == parse_value(content, 1)
    IN  IF v.ok /\ skip_space(content, v.next) > Len(content)
        THEN [raised |-> "none", data |-> v.value]
        ELSE [raised |-> "JSONDecodeError", data |-> JNull]

\* "key in data" and data.get(key, default) on a parsed mapping.
has_key(data, key) == \E i \in DOMAIN data.items : data.items[i].key = key

get(data, key, default) ==
    IF has_key(data, key)
    THEN data.items[CHOOSE i \in DOMAIN data.items : data.items[i].key = key].value
    ELSE default

\* The characters of [a-zA-Z0-9] that the contents here are written with.
Alnum == {"a", "b", "x", "0", "1"}

\* re.match(r"^dapi[a-zA-Z0-9]{32,}$", value): "dapi" and then 32 or more
\* letters and digits, each a piece of its own.
is_pat_token(value) ==
    /\ Len(value) >= 1 + 32
    /\ value[1] = "dapi"
    /\ \A i \in 2..Len(value) : value[i] \in Alnum

\* The pieces of a URL that are not a run of [\w-].
UrlSeparators == {"/", ":", ".", "?", "=", "&", " "}

is_word(piece) == piece \notin UrlSeparators

\* re.search(r"vector-search/[\w-]+/[\w-]+", url)
has_vector_search_path(url) ==
    \E k \in 1..(Len(url) - 4) :
        /\ url[k] = "vector-search" /\ url[k + 1] = "/" /\ is_word(url[k + 2])
        /\ url[k + 3] = "/" /\ is_word(url[k + 4])

\* re.search(r"genie/[\w-]+", url)
has_genie_space(url) ==
    \E k \in 1..(Len(url) - 2) :
        url[k] = "genie" /\ url[k + 1] = "/" /\ is_word(url[k + 2])

\* _find_line_number(content, search): the first line that holds search,
\* line 1 when none does.
find_line_number(content, search) ==
    LET lines == splitlines(content)
        hits  == {i \in DOMAIN lines : contains(lines[i], search)}
    IN  IF hits = {} THEN 1 ELSE CHOOSE i \in hits : \A j \in hits : i <= j

\* "needle in url" for a url that is not a string: membership of a sequence
\* or of the keys of a mapping.
holds(url, needle) ==
    IF url.t = "list" THEN \E i \in DOMAIN url.items : url.items[i] = JStr(needle)
    ELSE has_key(url, needle)

\* The two URL checks of _check_mcp_config on one url value.  A url that
\* is a number, a boolean or null has no "in" (TypeError); a sequence or a
\* mapping that holds the needle is then handed to re.search (TypeError).
check_url(url, raw_content) ==
    IF url.t = "str"
    THEN [raised |-> "none",
          findings |->
            (IF contains(url.s, <<"vector-search">>) /\ ~has_vector_search_path(url.s)
             THEN << Finding("MCP001", <<"Vector Search URL missing catalog/schema">>,
                             find_line_number(raw_content, url.s), 0, "error") >>
             ELSE <<>>)
            \o
            (IF contains(url.s, <<"mcp", "/", "genie">>) /\ ~has_genie_space(url.s)
             THEN << Finding("MCP002", <<"Genie URL missing genie_space_id">>,
                             find_line_number(raw_content, url.s), 0, "error") >>
             ELSE <<>>)]
    ELSE IF url.t \in {"list", "dict"}
              /\ ~holds(url, <<"vector-search">>)
              /\ ~holds(url, <<"mcp", "/", "genie">>)
         THEN [raised |-> "none", findings |-> <<>>]
    ELSE [raised |-> "TypeError", findings |-> <<>>]

\* A step of the loop over servers.items(): the checks of server i and of
\* those after it, stopped by the first exception.
RECURSIVE check_servers(_, _, _, _)
check_servers(servers, raw_content, i, findings) ==
    IF i > Len(servers.items) THEN [raised |-> "none", findings |-> findings]
    ELSE LET config == servers.items[i].value
         IN  IF config.t = "dict" /\ has_key(config, <<"url">>)
             THEN LET checked == check_url(get(config, <<"url">>, JNull), raw_content)
                  IN  IF checked.raised # "none" THEN checked
                      ELSE check_servers(servers, raw_content, i + 1,
                                         findings \o checked.findings)
             ELSE check_servers(servers, raw_content, i + 1, findings)

\* The URL checks read the servers from data.get("mcpServers", {}).
servers_of(data) == get(data, <<"mcpServers">>, JDict(<<>>))

\* _check_mcp_config(data, raw_content): the wrong-key findings, then the
\* URL checks of the servers; a servers value without .items() raises
\* AttributeError.
check_mcp_config(data, raw_content) ==
    LET wrong_key(key) ==
            IF has_key(data, key) /\ ~has_key(data, <<"mcpServers">>)
            THEN << Finding("MCP004",
                            <<"Use 'mcpServers' instead of '">> \o key \o <<"'">>,
                            find_line_number(raw_content, key), 0, "error") >>
            ELSE <<>>
        servers == servers_of(data)
    IN  IF servers.t # "dict" THEN [raised |-> "AttributeError", findings |-> <<>>]
        ELSE check_servers(servers, raw_content, 1,
                           wrong_key(<<"servers">>) \o wrong_key(<<"mcp_", "servers">>))

\* The values _analyze_structure descends into.
descends(value) == value.t = "dict"

\* _analyze_structure(data, raw_content, path): on a mapping, the MCP checks
\* when one of the three keys is present, then for each item in order a
\* token finding for a string value and the findings of a nested value.
RECURSIVE analyze_structure(_, _, _)
RECURSIVE analyze_items(_, _, _, _, _)

analyze_structure(data, raw_content, path) ==
    IF data.t # "dict" THEN [raised |-> "none", findings |-> <<>>]
    ELSE LET mcp == IF \/ has_key(data, <<"mcpServers">>)
                       \/ has_key(data, <<"mcp_", "servers">>)
                       \/ has_key(data, <<"servers">>)
                    THEN check_mcp_config(data, raw_content)
                    ELSE [raised |-> "none", findings |-> <<>>]
         IN  IF mcp.raised # "none" THEN mcp
             ELSE analyze_items(data, raw_content, path, 1, mcp.findings)

analyze_items(data, raw_content, path, i, findings) ==
    IF i > Len(data.items) THEN [raised |-> "none", findings |-> findings]
    ELSE LET key      == data.items[i].key
             value    == data.items[i].value
             new_path == IF path # <<>> THEN path \o <<".">> \o key ELSE key
         IN  IF value.t = "str"
             THEN analyze_items(data, raw_content, path, i + 1,
                    IF is_pat_token(value.s)
                    THEN Append(findings,
                                Finding("AUTH003", <<"Hardcoded token at ">> \o new_path,
                                        find_line_number(raw_content, value.s), 0, "error"))
                    ELSE findings)
             ELSE IF descends(value)
             THEN LET nested == analyze_structure(value, raw_content, new_path)
                  IN  IF nested.raised # "none" THEN nested
                      ELSE analyze_items(data, raw_content, path, i + 1,
                                         findings \o nested.findings)
             ELSE analyze_items(data, raw_content, path, i + 1, findings)

\* JSONAnalyzer.analyze(content): no findings for a text json.loads rejects.
json_analyze(content) ==
    LET loaded == json_loads(content)
    IN  IF loaded.raised = "JSONDecodeError" THEN [raised |-> "none", findings |-> <<>>]
        ELSE analyze_structure(loaded.data, content, <<>>)

\* ------------------------------------------------------------------ SQL

\* A line of SQL is its words (runs of letters, digits and "_"), and one
\* piece for every other character.
SqlSymbols == {".", "*", "(", ")", ",", ";", "=", "\"", "'"}
SqlNumbers == {"1", "10"}

\* [a-zA-Z_][a-zA-Z0-9_]* followed by \b: a word that starts with no digit.
is_identifier(piece) == piece \notin SqlSymbols \cup JsonSpace \cup SqlNumbers

\* The number of characters of a piece.
chars(piece) ==
    CASE piece \in {"ON", "OR", "10"}                              -> 2
      [] piece \in {"AND", "SET"}                                  -> 3
      [] piece \in {"FROM", "JOIN", "INTO"}                        -> 4
      [] piece \in {"LIMIT", "WHERE", "TABLE"}                     -> 5
      [] piece \in {"SELECT", "UPDATE", "INSERT", "SCHEMA"}        -> 6
      [] piece = "CATALOG"                                         -> 7
      [] piece \in {"MY_TABLE", "SELECTED"}                        -> 8
      [] OTHER                                                     -> 1

\* The character offset of piece i of a line.
offset(line, i) == SeqSum([k \in 1..(i - 1) |-> chars(line[k])])

\* The piece after one or more whitespace pieces that follow piece i, 0
\* when piece i is followed by no whitespace or by nothing else.
after_space(line, i) ==
    LET j == skip_space(line, i + 1)
    IN  IF j > i + 1 /\ j <= Len(line) THEN j ELSE 0

\* A pattern that wants "SELECT*" written without whitespace.
select_star_glued(line) ==
    \E i \in 1..(Len(line) - 1) : line[i] = "SELECT" /\ line[i + 1] = "*"

\* re.search(r"\bSELECT\s+\*\s+FROM\b", line)
select_star(line) ==
    \E i \in DOMAIN line :
        /\ line[i] = "SELECT"
        /\ after_space(line, i) # 0
        /\ line[after_space(line, i)] = "*"
        /\ after_space(line, after_space(line, i)) # 0
        /\ line[after_space(line, after_space(line, i))] = "FROM"

\* re.search(r"\bSELECT\b.*\bFROM\b", line)
select_from(line) ==
    \E i, j \in DOMAIN line : i < j /\ line[i] = "SELECT" /\ line[j] = "FROM"

\* line.count("SELECT"): the word itself and the words that hold it.
count_select(line) ==
    Cardinality({i \in DOMAIN line : line[i] \in {"SELECT", "SELECTED"}})

TableKeywords == {"FROM", "JOIN", "INTO", "UPDATE"}
NotTables     == {"SELECT", "WHERE", "AND", "OR", "ON"}

\* re.finditer(table_pattern, line) from piece i on: a keyword, whitespace
\* and an identifier; the search goes on after the identifier.
RECURSIVE table_matches(_, _)
table_matches(line, i) ==
    IF i > Len(line) THEN <<>>
    ELSE IF /\ line[i] \in TableKeywords
            /\ after_space(line, i) # 0
            /\ is_identifier(line[after_space(line, i)])
         THEN <<[start |-> i, group |-> after_space(line, i)]>>
                  \o table_matches(line, after_space(line, i) + 1)
         ELSE table_matches(line, i + 1)

\* "." not in table_name and table_name.upper() not in {...}: the group
\* of a match is one identifier, so it never holds a ".".
unqualified(table_name) == table_name # "." /\ upper(table_name) \notin NotTables

\* SQLAnalyzer._check_line(line, line_num)
check_line(line, line_num) ==
    LET matches == table_matches(line, 1)
        flagged == SelectSeq(matches, LAMBDA m : unqualified(line[m.group]))
    IN  (IF select_star(line)
         THEN << Finding("SQL008", <<"SELECT * usage (performance impact)">>,
                         line_num, 0, "warning") >>
         ELSE <<>>)
        \o
        (IF select_from(line) /\ "LIMIT" \notin Range(line) /\ count_select(line) = 1
         THEN << Finding("SQL006", <<"Query without LIMIT clause">>, line_num, 0, "info") >>
         ELSE <<>>)
        \o
        [k \in DOMAIN flagged |->
            Finding("UC001",
                    <<"Table '", line[flagged[k].group], "' not fully qualified">>,
                    line_num, offset(line, flagged[k].start), "warning")]

\* SQLAnalyzer.analyze(content): the findings of the upper-cased lines.
sql_analyze(content) ==
    LET lines == splitlines([i \in DOMAIN content |-> upper(content[i])])
    IN  [raised |-> "none",
         findings |-> Flatten([n \in DOMAIN lines |-> check_line(lines[n], n)])]

\* ------------------------------------------------------------------ Python

\* A line of Python is its words and one piece for every other character;
\* four blanks of indentation are one piece.
Indent     == "    "
PySymbols  == {"(", ")", ".", ",", "=", "+", "-", "*", "%", ":", "\"", "{", "}", "/",
               " ", "\t", Indent}
PyKeywords == {"try", "except", "pass", "def", "import", "return"}

is_name(piece) == piece \notin PySymbols \cup PyKeywords \cup JsonNumbers \cup SqlNumbers

\* The number of characters of a piece of Python.
width(piece) ==
    CASE piece \in {"s3", "gs", "10"}                           -> 2
      [] piece \in {"sql", "s3a", "try", "def", "mnt"}          -> 3
      [] piece \in {"host", "dapi", "pass", "dbfs", Indent}     -> 4
      [] piece \in {"token", "spark", "query", "abfss"}         -> 5
      [] piece \in {"except", "bucket"}                         -> 6
      [] piece = "SELECT "                                      -> 7
      [] piece = "Exception"                                    -> 9
      [] piece = "execute_sql"                                  -> 11
      [] piece = "WorkspaceClient"                              -> 15
      [] OTHER                                                  -> 1

col_offset(line, i) == SeqSum([k \in 1..(i - 1) |-> width(line[k])])

\* The nodes of the tree the checks look at: string constants, calls and
\* exception handlers.  depth is the distance from the module node; a
\* call carries the name it calls, the names of its keyword arguments and
\* the kind of its first positional argument.
PyNode(type, value, func_name, keywords, first, col, depth) ==
    [type |-> type, value |-> value, func_name |-> func_name, keywords |-> keywords,
     first |-> first, lineno |-> 0, col |-> col, depth |-> depth]

deeper(nodes, k) == [i \in DOMAIN nodes |-> [nodes[i] EXCEPT !.depth = @ + k]]

\* A parsed expression: where it ends, its kind, its operator (of a binary
\* operation), its name (of a name or an attribute), where it starts, and
\* its nodes, in source order, with depths counted from the expression.
Expr(next, kind, op, name, col, nodes) ==
    [ok |-> TRUE, next |-> next, kind |-> kind, op |-> op, name |-> name,
     col |-> col, nodes |-> nodes]
NoExpr == [ok |-> FALSE, next |-> 0, kind |-> "", op |-> "", name |-> "",
           col |-> 0, nodes |-> <<>>]

\* The replacement fields of an f-string body: "{", a name, "}".
fields(body) ==
    {k \in 1..(Len(body) - 2) : body[k] = "{" /\ is_name(body[k + 1]) /\ body[k + 2] = "}"}

in_field(body, k) == \E f \in fields(body) : k \in f..(f + 2)

\* Every brace of the body belongs to a replacement field.
well_formed(body) ==
    \A k \in DOMAIN body : body[k] \in {"{", "}"} => in_field(body, k)

\* The literal parts of an f-string body, in order.
literal_parts(body) ==
    LET starts == {k \in DOMAIN body :
                      ~in_field(body, k) /\ (k = 1 \/ in_field(body, k - 1))}
        stop(k)  == CHOOSE e \in k..Len(body) :
                      /\ \A j \in k..e : ~in_field(body, j)
                      /\ (e = Len(body) \/ in_field(body, e + 1))
        nth(n)   == CHOOSE k \in starts : Cardinality({j \in starts : j < k}) = n - 1
    IN  [n \in 1..Cardinality(starts) |-> SubSeq(body, nth(n), stop(nth(n)))]

RECURSIVE parse_expr(_, _)
RECURSIVE parse_sum(_, _, _)
RECURSIVE parse_term(_, _)
RECURSIVE parse_product(_, _, _)
RECURSIVE parse_primary(_, _)
RECURSIVE parse_trailers(_, _, _)
RECURSIVE parse_args(_, _, _)

\* An atom: a string, an f-string, a bytes literal, a number, a name or a
\* parenthesised expression; then its trailers.
parse_primary(line, from) ==
    LET i == skip_space(line, from)
    IN  IF i > Len(line) THEN NoExpr
        ELSE IF line[i] = "\""
             THEN LET j == closing_quote(line, i + 1)
                  IN  IF j = 0 THEN NoExpr
                      ELSE parse_trailers(line, j + 1,
                             Expr(j + 1, "Constant", "", "", col_offset(line, i),
                                  << PyNode("Constant", SubSeq(line, i + 1, j - 1), "",
                                            <<>>, "", col_offset(line, i), 0) >>))
        ELSE IF line[i] \in {"f", "b"} /\ i < Len(line) /\ line[i + 1] = "\""
             THEN LET j    == closing_quote(line, i + 2)
                      body == SubSeq(line, i + 2, j - 1)
                      lits == literal_parts(body)
                  IN  IF j = 0 THEN NoExpr
                      ELSE IF line[i] = "b"
                      THEN parse_trailers(line, j + 1,
                             Expr(j + 1, "Constant", "", "", col_offset(line, i), <<>>))
                      ELSE IF ~well_formed(body) THEN NoExpr
                      ELSE parse_trailers(line, j + 1,
                             Expr(j + 1, "JoinedStr", "", "", col_offset(line, i),
                                  [n \in DOMAIN lits |->
                                      PyNode("Constant", lits[n], "", <<>>, "",
                                             col_offset(line, i), 1)]))
        ELSE IF line[i] \in JsonNumbers \cup SqlNumbers
             THEN parse_trailers(line, i + 1,
                    Expr(i + 1, "Constant", "", "", col_offset(line, i), <<>>))
        ELSE IF line[i] = "("
             THEN LET inner == parse_expr(line, i + 1)
                      close == skip_space(line, inner.next)
                  IN  IF ~inner.ok \/ close > Len(line) \/ line[close] # ")" THEN NoExpr
                      ELSE parse_trailers(line, close + 1,
                             [inner EXCEPT !.next = close + 1,
                                           !.col = col_offset(line, i)])
        ELSE IF is_name(line[i])
             THEN parse_trailers(line, i + 1,
                    Expr(i + 1, "Name", "", line[i], col_offset(line, i), <<>>))
        ELSE NoExpr

\* ".name" makes an attribute of what stands before it, "(...)" a call.
parse_trailers(line, from, base) ==
    LET i == skip_space(line, from)
    IN  IF i > Len(line) THEN base
        ELSE IF line[i] = "."
             THEN LET n == skip_space(line, i + 1)
                  IN  IF n > Len(line) \/ ~is_name(line[n]) THEN NoExpr
                      ELSE parse_trailers(line, n + 1,
                             Expr(n + 1, "Attribute", "", line[n], base.col,
                                  deeper(base.nodes, 1)))
        ELSE IF line[i] = "("
             THEN LET args == parse_args(line, i + 1,
                                [ok |-> TRUE, next |-> i + 1, keywords |-> <<>>,
                                 first |-> "", nodes |-> <<>>])
                      func_name == IF base.kind \in {"Name", "Attribute"}
                                   THEN base.name ELSE ""
                  IN  IF ~args.ok THEN NoExpr
                      ELSE parse_trailers(line, args.next,
                             Expr(args.next, "Call", "", "", base.col,
                                  << PyNode("Call", <<>>, func_name, args.keywords,
                                            args.first, base.col, 0) >>
                                  \o deeper(base.nodes, 1) \o args.nodes))
        ELSE [base EXCEPT !.next = from]

\* The arguments of a call up to its ")": positional ones, then keyword
\* ones; a positional argument after a keyword one is a syntax error.
parse_args(line, from, acc) ==
    LET i  == skip_space(line, from)
        eq == skip_space(line, i + 1)
        is_keyword == /\ i <= Len(line) /\ is_name(line[i])
                      /\ eq < Len(line) /\ line[eq] = "=" /\ line[eq + 1] # "="
        value == parse_expr(line, IF is_keyword THEN eq + 1 ELSE i)
        n     == skip_space(line, value.next)
        acc2  == IF is_keyword
                 THEN [acc EXCEPT !.keywords = Append(@, line[i]),
                                  !.nodes = @ \o deeper(value.nodes, 2)]
                 ELSE [acc EXCEPT !.first = IF @ = "" THEN value.kind \o value.op ELSE @,
                                  !.nodes = @ \o deeper(value.nodes, 1)]
    IN  IF i > Len(line) THEN [acc EXCEPT !.ok = FALSE]
        ELSE IF line[i] = ")" THEN [acc EXCEPT !.next = i + 1]
        ELSE IF ~value.ok \/ n > Len(line) THEN [acc EXCEPT !.ok = FALSE]
        ELSE IF ~is_keyword /\ acc.keywords # <<>> THEN [acc EXCEPT !.ok = FALSE]
        ELSE IF line[n] = ")" THEN [acc2 EXCEPT !.next = n + 1]
        ELSE IF line[n] = "," THEN parse_args(line, n + 1, acc2)
        ELSE [acc EXCEPT !.ok = FALSE]

\* left op right, as a binary operation.
BinOp(op, left, right) ==
    Expr(right.next, "BinOp", op, "", left.col,
         deeper(left.nodes, 1) \o deeper(right.nodes, 1))

\* A product of atoms: "*" and "%" bind tighter than "+" and "-" and
\* group to the left.
parse_product(line, from, left) ==
    LET i     == skip_space(line, from)
        right == parse_primary(line, i + 1)
    IN  IF i > Len(line) \/ line[i] \notin {"*", "%"} THEN [left EXCEPT !.next = from]
        ELSE IF ~right.ok THEN NoExpr
        ELSE parse_product(line, right.next,
                           BinOp(IF line[i] = "%" THEN "Mod" ELSE "Mult", left, right))

parse_term(line, from) ==
    LET first == parse_primary(line, from)
    IN  IF ~first.ok THEN NoExpr ELSE parse_product(line, first.next, first)

parse_sum(line, from, left) ==
    LET i     == skip_space(line, from)
        right == parse_term(line, i + 1)
    IN  IF i > Len(line) \/ line[i] \notin {"+", "-"} THEN [left EXCEPT !.next = from]
        ELSE IF ~right.ok THEN NoExpr
        ELSE parse_sum(line, right.next,
                       BinOp(IF line[i] = "+" THEN "Add" ELSE "Sub", left, right))

parse_expr(line, from) ==
    LET first == parse_term(line, from)
    IN  IF ~first.ok THEN NoExpr ELSE parse_sum(line, first.next, first)

\* The rest of the line from i is blank.
ends_at(line, i) == skip_space(line, i) > Len(line)

\* A simple statement from piece i of a line: pass, an assignment to a
\* name, or an expression.  Its nodes are one level below the statement.
parse_simple(line, i) ==
    LET eq     == skip_space(line, i + 1)
        assign == /\ i <= Len(line) /\ is_name(line[i])
                  /\ eq < Len(line) /\ line[eq] = "=" /\ line[eq + 1] # "="
        value  == parse_expr(line, IF assign THEN eq + 1 ELSE i)
    IN  IF i <= Len(line) /\ line[i] = "pass"
        THEN [ok |-> ends_at(line, i + 1), nodes |-> <<>>]
        ELSE [ok |-> value.ok /\ ends_at(line, value.next),
              nodes |-> deeper(value.nodes, 1)]

on_line(nodes, lineno) == [i \in DOMAIN nodes |-> [nodes[i] EXCEPT !.lineno = lineno]]

\* "except:" and "except Name:".
is_handler(line) ==
    \/ line = <<"except", ":">>
    \/ Len(line) = 4 /\ line[1] = "except" /\ line[2] = " "
                      /\ is_name(line[3]) /\ line[4] = ":"

indented(line) == Len(line) >= 1 /\ line[1] = Indent

\* The statements of a module from line n on: blank lines, simple
\* statements, and try statements of one statement and one handler of one
\* statement.  Anything else is a SyntaxError.
RECURSIVE parse_module(_, _, _)
parse_module(lines, n, nodes) ==
    IF n > Len(lines) THEN [raised |-> "none", nodes |-> nodes]
    ELSE IF ends_at(lines[n], 1) THEN parse_module(lines, n + 1, nodes)
    ELSE IF lines[n] = <<"try", ":">>
         THEN IF /\ n + 3 <= Len(lines)
                 /\ indented(lines[n + 1]) /\ parse_simple(lines[n + 1], 2).ok
                 /\ is_handler(lines[n + 2])
                 /\ indented(lines[n + 3]) /\ parse_simple(lines[n + 3], 2).ok
              THEN parse_module(lines, n + 4,
                     nodes
                     \o on_line(deeper(parse_simple(lines[n + 1], 2).nodes, 2), n + 1)
                     \o on_line(<< PyNode("ExceptHandler", <<>>, "", <<>>,
                                          IF Len(lines[n + 2]) = 2 THEN "bare" ELSE "typed",
                                          0, 2) >>, n + 2)
                     \o on_line(deeper(parse_simple(lines[n + 3], 2).nodes, 3), n + 3))
              ELSE [raised |-> "SyntaxError", nodes |-> <<>>]
    ELSE IF parse_simple(lines[n], 1).ok
         THEN parse_module(lines, n + 1,
                           nodes \o on_line(deeper(parse_simple(lines[n], 1).nodes, 1), n))
    ELSE [raised |-> "SyntaxError", nodes |-> <<>>]

\* ast.parse(content)
ast_parse(content) == parse_module(splitlines(content), 1, <<>>)

\* ast.walk(tree): breadth first, so by depth and then in source order.
ast_walk(nodes) ==
    LET depths == {nodes[i].depth : i \in DOMAIN nodes}
        deepest == IF depths = {} THEN 0 ELSE CHOOSE d \in depths : \A e \in depths : e <= d
    IN  Flatten([d \in 1..(deepest + 1) |->
                    SelectSeq(nodes, LAMBDA node : node.depth = d - 1)])

\* The storage locations _check_direct_file_access looks for.
cloud_path_patterns ==
    << <<"s3", ":", "/", "/">>, <<"s3a", ":", "/", "/">>, <<"abfss", ":", "/", "/">>,
       <<"gs", ":", "/", "/">>, <<"/", "dbfs", "/", "mnt", "/">> >>

\* A token visitor that looks at the dapi prefix only, whatever follows it.
check_dapi_prefix(node) ==
    IF node.type = "Constant" /\ node.value # <<>> /\ node.value[1] = "dapi"
    THEN << Finding("AUTH003", <<"Hardcoded Databricks PAT token detected">>,
                    node.lineno, node.col, "error") >>
    ELSE <<>>

\* The findings of one visitor for one node.
check_hardcoded_tokens(node) ==
    IF node.type = "Constant" /\ is_pat_token(node.value)
    THEN << Finding("AUTH003", <<"Hardcoded Databricks PAT token detected">>,
                    node.lineno, node.col, "error") >>
    ELSE <<>>

check_client_initialization(node) ==
    IF node.type = "Call" /\ node.func_name = "WorkspaceClient"
    THEN LET tokens == SelectSeq(node.keywords, LAMBDA arg : arg = "token")
         IN  [k \in DOMAIN tokens |->
                Finding("AUTH012", <<"Explicit token in WorkspaceClient">>,
                        node.lineno, node.col, "warning")]
    ELSE <<>>

check_sql_string_formatting(node) ==
    IF node.type = "Call" /\ node.func_name \in {"execute_sql", "sql", "query"}
    THEN IF node.first = "JoinedStr"
         THEN << Finding("SQL002", <<"SQL with f-string formatting (injection risk)">>,
                         node.lineno, node.col, "error") >>
         ELSE IF node.first \in {"BinOpAdd", "BinOpMod"}
         THEN << Finding("SQL002", <<"SQL with string concatenation (injection risk)">>,
                         node.lineno, node.col, "error") >>
         ELSE <<>>
    ELSE <<>>

check_direct_file_access(node) ==
    IF /\ node.type = "Constant"
       /\ \E k \in DOMAIN cloud_path_patterns : contains(node.value, cloud_path_patterns[k])
    THEN << Finding("UC006", <<"Direct cloud storage access (bypasses UC governance)">>,
                    node.lineno, node.col, "warning") >>
    ELSE <<>>

check_exception_handling(node) ==
    IF node.type = "ExceptHandler" /\ node.first = "bare"
    THEN << Finding("SQL014", <<"Bare except clause (catches all exceptions)">>,
                    node.lineno, node.col, "warning") >>
    ELSE <<>>

\* PythonAnalyzer.analyze(content): no findings for a source ast.parse
\* rejects; else the findings of the five visitors, each over ast.walk.
python_analyze(content) ==
    LET tree  == ast_parse(content)
        nodes == ast_walk(tree.nodes)
        visit(check(_)) == Flatten([i \in DOMAIN nodes |-> check(nodes[i])])
    IN  IF tree.raised = "SyntaxError" THEN [raised |-> "none", findings |-> <<>>]
        ELSE [raised |-> "none",
              findings |-> visit(check_hardcoded_tokens)
                           \o visit(check_client_initialization)
                           \o visit(check_sql_string_formatting)
                           \o visit(check_direct_file_access)
                           \o visit(check_exception_handling)]

\* ------------------------------------------------------------------ JSON texts

\* The text of a JSON string, object and array.
Quoted(str) == <<"\"">> \o str \o <<"\"">>

RECURSIVE Joined(_, _)
Joined(texts, i) ==
    IF i > Len(texts) THEN <<>>
    ELSE texts[i] \o (IF i < Len(texts) THEN <<",", " ">> ELSE <<>>) \o Joined(texts, i + 1)

Member(key, text) == Quoted(key) \o <<":", " ">> \o text
Object(members)   == <<"{">> \o Joined(members, 1) \o <<"}">>
Array(elements)   == <<"[">> \o Joined(elements, 1) \o <<"]">>

Host        == <<"https", ":", "/", "/", "h", "/", "api", "/", "2", ".", "0", "/">>
GenieBare   == Host \o <<"mcp", "/", "genie">>
GenieSpace  == GenieBare \o <<"/", "abc">>
VectorBare  == Host \o <<"mcp", "/", "vector-search">>
VectorFull  == VectorBare \o <<"/", "cat", "/", "sch">>
SqlEndpoint == Host \o <<"mcp", "/", "sql">>

UrlStrings == {GenieBare, GenieSpace, VectorBare, VectorFull, SqlEndpoint}

\* What a "url" member is written as: a string, or another kind of value.
UrlTexts ==
    {Quoted(u) : u \in UrlStrings}
        \cup {<<"5">>, <<"null">>, Array(<<>>), Array(<<Quoted(<<"vector-search">>)>>)}

RegistryKeys == {<<"mcpServers">>, <<"servers">>, <<"mcp_", "servers">>, <<"other">>}

Server(name, url_text) == Member(name, Object(<<Member(<<"url">>, url_text)>>))

\* A registry of one server under each key, of two servers under
\* "mcpServers", and registries whose servers are not a mapping.
RegistryTexts ==
    {Object(<<Member(k, Object(<<Server(<<"x">>, u)>>))>>) :
        k \in RegistryKeys, u \in UrlTexts}
    \cup
    {Object(<<Member(<<"mcpServers">>,
                     Object(<<Server(<<"x">>, Quoted(u)), Server(<<"y">>, Quoted(w))>>))>>) :
        u \in UrlStrings, w \in UrlStrings}
    \cup
    {Object(<<Member(k, v)>>) :
        k \in RegistryKeys, v \in {Array(<<>>), <<"null">>, Quoted(<<"s">>)}}

PatToken   == <<"dapi">> \o bar("a", 32)
ShortToken == <<"dapi">> \o bar("a", 31)

\* A token, a string one character short of a token, and a number, each
\* at the top, under a key, under two keys, in a sequence, in a sequence
\* under a key and on a line of its own under a key.
TokenTexts ==
    UNION { { t,
              Object(<<Member(<<"k">>, t)>>),
              Object(<<Member(<<"k">>, Object(<<Member(<<"j">>, t)>>))>>),
              Array(<<t>>),
              Object(<<Member(<<"k">>, Array(<<t>>))>>),
              Object(<<Member(<<"n">>, <<"5">>), Member(<<"k">>, <<"\n">> \o t \o <<"\n">>)>>) } :
            t \in {Quoted(PatToken), Quoted(ShortToken), <<"5">>} }

\* Texts that are not one JSON value.
BrokenTexts ==
    { <<>>, <<"{">>, <<"{", "\"", "a", "\"", ":", " ">>, <<"[", "5", ",", "]">>,
      Object(<<>>) \o <<"5">>, <<"\"", "a", "\n", "\"">> }

JsonTexts == RegistryTexts \cup TokenTexts \cup BrokenTexts

\* ------------------------------------------------------------------ SQL texts

Spaced(words) == Joined([i \in DOMAIN words |-> <<words[i]>>], 1)

\* Lines of SQL: a SELECT * of an unqualified table; a fully qualified and
\* a two-part reference; references by JOIN, INTO and UPDATE; a subquery; a
\* keyword taken for a table; a quoted and a numeric reference; a column
\* whose name holds SELECT; a SELECT without FROM.
SqlLines ==
    { <<"SELECT", " ", "*", " ", "FROM", " ", "my_table">>,
      <<"select", " ", "a", " ", "from", " ", "catalog", ".", "schema", ".", "table",
        " ", "limit", " ", "10">>,
      <<"SELECT", " ", " ", "*", "\t", "FROM", " ", "schema", ".", "table">>,
      <<"SELECT", " ", "a", " ", "FROM", " ", "t", " ", "JOIN", " ", "my_table",
        " ", "ON", " ", "a">>,
      <<"INSERT", " ", "INTO", " ", "SELECT", " ", "a", " ", "FROM", " ", "t">>,
      <<"UPDATE", " ", "my_table", " ", "SET", " ", "a", " ", "=", " ", "1">>,
      <<"SELECT", " ", "selected", " ", "FROM", " ", "(", "SELECT", " ", "a", " ",
        "FROM", " ", "t", ")">>,
      <<"FROM", " ", "JOIN", " ", "t">>,
      <<"SELECT", "*", "FROM", " ", "t">>,
      <<"SELECT", " ", "a", " ", "FROM", " ", "\"", "my_table", "\"">>,
      <<"FROM", " ", "1">>,
      <<"SELECT", " ", "selected", " ", "FROM", " ", "catalog", ".", "schema", ".", "table">>,
      <<"SELECT", " ", "1">>,
      <<>> }

MaxLines == 2

RECURSIVE LinesUpTo(_)
LinesUpTo(n) ==
    IF n = 1 THEN SqlLines
    ELSE LinesUpTo(n - 1)
            \cup {head \o <<"\n">> \o line : head \in LinesUpTo(n - 1), line \in SqlLines}

SqlTexts == LinesUpTo(MaxLines)

\* ------------------------------------------------------------------ Python texts

Assigned(name, value) == <<name, " ", "=", " ">> \o value

\* Statements: string, f-string and bytes literals that hold a token or a
\* storage location; client, SQL and other calls; a statement that does not
\* parse and a call whose arguments are out of order.
PyLines ==
    { Assigned("token", Quoted(PatToken)),
      Assigned("token", Quoted(ShortToken)),
      Assigned("x", <<"f">> \o Quoted(PatToken \o <<"{", "y", "}">>)),
      Assigned("x", <<"b">> \o Quoted(PatToken)),
      Assigned("w", <<"WorkspaceClient", "(", "host", "=", "h", ",", " ",
                      "token", "=", "t", ")">>),
      Assigned("w", <<"WorkspaceClient", "(", "token", "=", "t", ")", ".", "sql", "(">>
                      \o Quoted(<<"SELECT ">>) \o <<" ", "+", " ", "x", ")">>),
      <<"WorkspaceClient", "(", "token", "=">> \o Quoted(PatToken)
          \o <<",", " ", "token", "=", "t", ")">>,
      <<"spark", ".", "sql", "(", "f">> \o Quoted(<<"SELECT ", "{", "x", "}">>) \o <<")">>,
      <<"execute_sql", "(">> \o Quoted(<<"SELECT ">>) \o <<" ", "%", " ", "x", ",", " ">>
          \o Quoted(PatToken) \o <<")">>,
      <<"query", "(", "q", ")">>,
      <<"query", "(", "x", "=", "1", ",", " ">> \o Quoted(<<"SELECT ">>)
          \o <<" ", "+", " ", "x", ")">>,
      Assigned("p", Quoted(<<"s3", ":", "/", "/", "bucket">>)),
      Assigned("p", <<"(">> \o Quoted(<<"/", "dbfs", "/", "mnt", "/">>) \o <<")">>),
      <<"def", " ", "(">>,
      <<"pass">>,
      <<>> }

\* One statement or two, a try statement, and two sources whose layout
\* does not parse.
PyTexts ==
    PyLines
    \cup {first \o <<"\n">> \o second : first \in PyLines, second \in PyLines}
    \cup {<<"try", ":", "\n", Indent>> \o body \o <<"\n">> \o handler
              \o <<"\n", Indent>> \o recover :
            body \in PyLines, recover \in PyLines,
            handler \in {<<"except", ":">>, <<"except", " ", "Exception", ":">>}}
    \cup {<<Indent, "pass">>, <<"try", ":", "\n", Indent, "pass">>}

\* ------------------------------------------------------------------ inputs

\* Content handed to analyze_string.
Contents ==
    { <<>>,
      <<"a">>,
      <<"b", "\n", "a">>,
      <<" ", "A", "a", "\r", "\n", "c", "\n", "a", "\n", "b", "\n">> }

\* file_name of analyze_string: its default, "<string>".
DEFAULT_FILE_NAME == <<N("<string>", "")>>

\* Paths handed to analyze_file: every entry of the file system, one of them
\* also spelled "./proj/a.py", and a path that does not exist.
RawPaths ==
    { FS[i].path : i \in DOMAIN FS }
    \cup { <<N(".", "")>> \o FS[1].path,
           <<N("proj", ""), N("gone", ".py")>> }

\* analyze_directory calls: directory, recursive, exclude_patterns (<<>> is
\* None or [], the other list is ["*.py"]).
DirectoryCalls ==
    { << <<N("proj", "")>>,               TRUE,  <<>> >>,
      << <<N("proj", "")>>,               FALSE, <<>> >>,
      << <<N("proj", "")>>,               TRUE,  <<<<Suffixed(".py")>>>> >>,
      << <<N("proj", ""), N("one", "")>>, TRUE,  <<>> >> }

\* Orders in which iterating the set ALL_EXTENSIONS yields its members (the
\* order of a set of strings follows the hash seed).
ExtOrders ==
    { <<".py", ".pyi", ".sql", ".json", ".ipynb">>,
      <<".ipynb", ".json", ".sql", ".pyi", ".py">> }

\* A call: the operation, and those of content (text), path (file_name,
\* file_path or directory), recursive and exclude_patterns it was given; for
\* analyze_directory also the order in which ALL_EXTENSIONS was iterated; for
\* add_patterns its category and rules; for a generator its fields (self)
\* and the servers asked for; for refactor the query (text) and the
\* refactorer's default_limit.
NoCall ==
    [op |-> "none", text |-> <<>>, path |-> <<>>, recursive |-> FALSE,
     exclude |-> <<>>, order |-> <<>>, color |-> FALSE, format |-> "none",
     self |-> [workspace_host |-> JNull, catalog |-> JNull, schema |-> JNull,
               genie_space_id |-> JNull],
     servers |-> <<>>, category |-> "", rules |-> <<>>, default_limit |-> 0]

\* The rules behind the violations handed to the reporter: an error rule
\* whose description holds a percent sign and a line feed, a warning rule
\* and an info rule.
ReportRules ==
    << [RulePool[1] EXCEPT !.description = <<"50", "%", " of", "\n", "rows">>],
       RulePool[2],
       [RulePool[5] EXCEPT !.description = <<"100", "%">>] >>

\* A line of 85 characters, two of them leading blanks.
LongLine == <<" ", " ", "a">> \o bar("x", 82)

\* The violations results are made of: two of the error rule in one file
\* (one on a line longer than the report shows), the warning rule in that
\* file and in a file whose name holds a line feed, the info rule in a string.
ReportViolations ==
    << Violation(ReportRules[1], <<N("proj", ""), N("a", ".py")>>, 1, <<" ", "a", "\t">>),
       Violation(ReportRules[1], <<N("proj", ""), N("a", ".py")>>, 2, LongLine),
       Violation(ReportRules[2], <<N("proj", ""), N("a", ".py")>>, 1, <<"b">>),
       Violation(ReportRules[2], <<N("a\nb", ".py")>>, 1, <<"b">>),
       Violation(ReportRules[3], DEFAULT_FILE_NAME, 3, <<"a">>) >>

\* files_analyzed of those results.
FilesAnalyzed == {0, 1, 3}

\* The results handed to the reporter.
ReportResults ==
    { [violations       |-> [k \in DOMAIN l |-> ReportViolations[l[k]]],
       files_analyzed   |-> n,
       patterns_checked |-> 2 * n] :
        l \in UNION { [1..m -> DOMAIN ReportViolations] : m \in 0..MaxViolations },
        n \in FilesAnalyzed }

\* ------------------------------------------------------------------ behaviour

\* PatternEngine(include_info=...): no rules, an empty regex cache.
Init ==
    /\ patterns = <<>>
    /\ include_info \in BOOLEAN
    /\ compiled_patterns = <<>>
    /\ call = NoCall
    /\ outcome = "returned"
    /\ result = AnalysisResult(0)
    /\ output = <<>>
    /\ given_patterns = <<>>
    /\ aliased = FALSE

\* An assignment that adds the rules to those the category has.
extend_item(pats, category, rules) ==
    IF \E i \in DOMAIN pats : pats[i].category = category
    THEN [i \in DOMAIN pats |->
            IF pats[i].category = category
            THEN [category |-> category, rules |-> pats[i].rules \o rules] ELSE pats[i]]
    ELSE Append(pats, [category |-> category, rules |-> rules])

\* self.patterns[category] = patterns: a known category keeps its place in
\* the dict, a new one goes last. The item is set in the mapping self.patterns
\* refers to, which is the caller's mapping when the two are one object.
set_item(pats, category, rules) ==
    IF \E i \in DOMAIN pats : pats[i].category = category
    THEN [i \in DOMAIN pats |->
            IF pats[i].category = category
            THEN [category |-> category, rules |-> rules] ELSE pats[i]]
    ELSE Append(pats, [category |-> category, rules |-> rules])

add_patterns(category, rules) ==
    /\ patterns' = set_item(patterns, category, rules)
    /\ given_patterns' = IF aliased THEN set_item(patterns, category, rules)
                         ELSE given_patterns
    /\ call' = [NoCall EXCEPT !.op = "add_patterns", !.category = category,
                              !.rules = rules]
    /\ outcome' = "returned"
    /\ result' = AnalysisResult(0)
    /\ UNCHANGED <<include_info, compiled_patterns, output, aliased>>

\* What a finished analysis leaves behind: the cache it filled and, unless
\* an exception escaped, the result it returned.
Finish(c, run) ==
    LET r == run
    IN  /\ call' = c
        /\ compiled_patterns' = r.cache
        /\ outcome' = IF r.raised = "none" THEN "returned" ELSE r.raised
        /\ result' = IF r.raised = "none" THEN r.result ELSE AnalysisResult(0)
        /\ UNCHANGED <<patterns, include_info, output, given_patterns, aliased>>

AnalyzeString(content, file_name) ==
    Finish([NoCall EXCEPT !.op = "analyze_string", !.text = content, !.path = file_name],
           analyze_string(patterns, include_info, compiled_patterns, content, file_name))

AnalyzeFile(raw_path) ==
    Finish([NoCall EXCEPT !.op = "analyze_file", !.path = raw_path],
           analyze_file(patterns, include_info, compiled_patterns, raw_path))

AnalyzeDirectory(directory, recursive, exclude_patterns, order) ==
    Finish([NoCall EXCEPT !.op = "analyze_directory", !.path = directory,
                          !.recursive = recursive, !.exclude = exclude_patterns,
                          !.order = order],
           analyze_directory(patterns, include_info, compiled_patterns, order,
                             directory, recursive, exclude_patterns))

AddPatternsStep ==
    \E category \in Categories : \E l \in RuleLists(category) :
        add_patterns(category, RulesOf(l))

AnalyzeStringStep ==
    \E content \in Contents : AnalyzeString(content, DEFAULT_FILE_NAME)

AnalyzeFileStep ==
    \E raw_path \in RawPaths : AnalyzeFile(raw_path)

AnalyzeDirectoryStep ==
    \E d \in DirectoryCalls, order \in ExtOrders :
        AnalyzeDirectory(d[1], d[2], d[3], order)

Next ==
    \/ AddPatternsStep
    \/ AnalyzeStringStep
    \/ AnalyzeFileStep
    \/ AnalyzeDirectoryStep

Spec == Init /\ [][Next]_vars

\* ------------------------------------------------------------------ command line

\* ALL_PATTERNS (patterns/__init__.py): the default catalog, here two
\* categories of rules from the pool; like the rules of the repository, all
\* of them compile.
ALL_PATTERNS ==
    << [category |-> "mcp_server",    rules |-> RulesOf(<<5, 6>>)],
       [category |-> "sql_execution", rules |-> RulesOf(<<1, 2>>)] >>

\* create_default_engine: add_patterns for every category of ALL_PATTERNS.
create_default_engine ==
    LET added[i \in 0..Len(ALL_PATTERNS)] ==
            IF i = 0 THEN <<>>
            ELSE set_item(added[i - 1], ALL_PATTERNS[i].category, ALL_PATTERNS[i].rules)
    IN  added[Len(ALL_PATTERNS)]

\* Path.is_file(), Path.is_dir()
is_file(path) == path \in ExistingPaths /\ EntryAt[path].kind = "file"
is_dir(path)  == path \in ExistingPaths /\ EntryAt[path].kind = "dir"

\* The report cmd_analyze prints for args.format.
report(r, format, color) ==
    CASE format = "text"   -> to_text(r, color)
      [] format = "json"   -> to_json(r)
      [] format = "sarif"  -> to_sarif(r)
      [] format = "github" -> to_github_actions(r)

\* return 1 if result.error_count > 0 else 0
exit_code(r) == IF error_count(r) > 0 THEN 1 ELSE 0

\* cmd_analyze(args): the engine it built (catalog, cache), the result, what
\* was written and returned, and the exception that escaped, if any.
\* The rest of cmd_analyze once the analysis has run: an exception of the
\* analysis escapes; else the report, the summary and the exit code.
reported(pats, run, format, color) ==
    IF run.raised # "none"
    THEN [patterns |-> pats, cache |-> run.cache, raised |-> run.raised,
          result |-> AnalysisResult(0), output |-> <<>>]
    ELSE [patterns |-> pats, cache |-> run.cache, raised |-> "none",
          result |-> run.result,
          output |-> [exit_code |-> exit_code(run.result),
                      report    |-> report(run.result, format, color),
                      summary   |-> <<"\n">> \o format_summary(run.result),
                      stderr    |-> <<>>]]

cmd_analyze(raw_path, inc, no_recursive, exclude, format, no_color, order) ==
    LET pats == create_default_engine
        path == Path(raw_path)
    IN  IF ~is_file(path) /\ ~is_dir(path)
        THEN [patterns |-> pats, cache |-> <<>>, raised |-> "none",
              result |-> AnalysisResult(0),
              output |-> [exit_code |-> 1, report |-> <<>>, summary |-> <<>>,
                          stderr |-> <<"Error: Path not found: ">> \o str_path(path)]]
        ELSE CHOOSE done \in
                { reported(pats, run, format, ~no_color) :
                    run \in { IF is_file(path) THEN analyze_file(pats, inc, <<>>, path)
                              ELSE analyze_directory(pats, inc, <<>>, order, path,
                                                     ~no_recursive, exclude) } } : TRUE

\* Path arguments: the paths handed to analyze_file, and three directories,
\* one of them named like a JSON file.
CliPaths ==
    RawPaths \cup { <<N("proj", "")>>,
                    <<N("proj", ""), N("one", "")>>,
                    <<N("proj", ""), N("venv", "")>> }

\* --exclude: not given, "*.py", "*.sql", and "" (a glob without components).
CliExcludes == { <<>>, <<<<Suffixed(".py")>>>>, <<<<Suffixed(".sql")>>>>, << <<>> >> }

Formats == {"text", "json", "sarif", "github"}

\* A process that has not run a command yet.
CliInit == Init /\ include_info = FALSE

CmdAnalyze(raw_path, inc, no_recursive, exclude, format, no_color, order) ==
    /\ call.op = "none"
    /\ \E r \in {cmd_analyze(raw_path, inc, no_recursive, exclude, format, no_color, order)} :
        /\ patterns' = r.patterns
        /\ include_info' = inc
        /\ compiled_patterns' = r.cache
        /\ call' = [NoCall EXCEPT !.op = "cmd_analyze", !.path = raw_path,
                                  !.recursive = ~no_recursive, !.exclude = exclude,
                                  !.order = order, !.color = ~no_color,
                                  !.format = format]
        /\ outcome' = IF r.raised = "none" THEN "returned" ELSE r.raised
        /\ result' = r.result
        /\ output' = r.output
        /\ UNCHANGED <<given_patterns, aliased>>

CliNext ==
    \E raw_path \in CliPaths, inc \in BOOLEAN, no_recursive \in BOOLEAN,
       exclude \in CliExcludes, format \in Formats, no_color \in BOOLEAN,
       order \in ExtOrders :
        CmdAnalyze(raw_path, inc, no_recursive, exclude, format, no_color, order)

CliSpec == CliInit /\ [][CliNext]_vars

\* ------------------------------------------------------------------ reporting

\* PatternReporter(result): a reporter holding a result.
ReportInit ==
    /\ patterns = <<>>
    /\ include_info = FALSE
    /\ compiled_patterns = <<>>
    /\ call = [NoCall EXCEPT !.op = "PatternReporter"]
    /\ outcome = "returned"
    /\ result \in ReportResults
    /\ output = <<>>
    /\ given_patterns = <<>>
    /\ aliased = FALSE

\* A reporter method ran on self.result and wrote out.
Render(op, color, out) ==
    /\ call' = [NoCall EXCEPT !.op = op, !.color = color]
    /\ outcome' = "returned"
    /\ output' = out
    /\ UNCHANGED <<patterns, include_info, compiled_patterns, result, given_patterns, aliased>>

ToText == \E color \in BOOLEAN : Render("to_text", color, to_text(result, color))

ToJson == Render("to_json", FALSE, to_json(result))

ToSarif == Render("to_sarif", FALSE, to_sarif(result))

ToGithubActions == Render("to_github_actions", FALSE, to_github_actions(result))

FormatSummary == Render("format_summary", FALSE, format_summary(result))

ReportNext ==
    \/ ToText
    \/ ToJson
    \/ ToSarif
    \/ ToGithubActions
    \/ FormatSummary

ReportSpec == ReportInit /\ [][ReportNext]_vars

\* ------------------------------------------------------------------ analysis

\* The analyzers keep no state, so every call is the first call of an
\* analyzer: its content, its findings and whether it returned.
Analyze(op, content, run) ==
    /\ call.op = "none"
    /\ call' = [NoCall EXCEPT !.op = op, !.text = content]
    /\ outcome' = IF run.raised = "none" THEN "returned" ELSE run.raised
    /\ output' = run.findings
    /\ UNCHANGED <<patterns, include_info, compiled_patterns, result, given_patterns, aliased>>

JsonAnalyze(content) == Analyze("JSONAnalyzer.analyze", content, json_analyze(content))

JsonAnalyzeStep == \E content \in JsonTexts : JsonAnalyze(content)

SqlAnalyze(content) == Analyze("SQLAnalyzer.analyze", content, sql_analyze(content))

SqlAnalyzeStep == \E content \in SqlTexts : SqlAnalyze(content)

PythonAnalyze(content) ==
    Analyze("PythonAnalyzer.analyze", content, python_analyze(content))

PythonAnalyzeStep == \E content \in PyTexts : PythonAnalyze(content)

AnalyzerInit == Init /\ include_info = FALSE

AnalyzerNext ==
    \/ PythonAnalyzeStep
    \/ SqlAnalyzeStep
    \/ JsonAnalyzeStep

AnalyzerSpec == AnalyzerInit /\ [][AnalyzerNext]_vars

\* ------------------------------------------------------------------ claims

Returned(op) == call.op = op /\ outcome = "returned"

AnalysisOps == {"analyze_string", "analyze_file", "analyze_directory"}

\* The rules whose regex the engine applies: a regex body, and a severity
\* the filter lets through.
Applied(rule) == rule.regex # <<>> /\ (include_info \/ rule.severity # "info")

\* The regex of a rule matches a line.
Matches(rule, line) ==
    rule.regex # <<>> /\ re_compile(rule.regex) = "ok" /\ re_search(rule.regex, line)

HasRule(id) == \E i \in DOMAIN all_rules(patterns) : all_rules(patterns)[i].id = id

LongContent == <<" ", "A", "a", "\r", "\n", "c", "\n", "a", "\n", "b", "\n">>

\* C1: in the result of analyze_string, every applied rule has exactly one
\* violation for each line its regex matches, none for any other line, each
\* carrying the line's 1-based number and its untrimmed text; a regex that
\* needs a line break to match has no violation.
C1_OneViolationPerMatchingLine ==
    Returned("analyze_string") =>
        LET lines == splitlines(call.text)
            rules == all_rules(patterns)
            V     == result.violations
        IN  \A i \in DOMAIN rules :
                Applied(rules[i]) =>
                    /\ \A n \in DOMAIN lines :
                          Cardinality({ k \in DOMAIN V :
                                          /\ V[k].pattern_id = rules[i].id
                                          /\ V[k].line_number = n })
                              = IF Matches(rules[i], lines[n]) THEN 1 ELSE 0
                    /\ \A k \in DOMAIN V :
                          V[k].pattern_id = rules[i].id =>
                              /\ V[k].line_number \in DOMAIN lines
                              /\ V[k].line_content = lines[V[k].line_number]
                    /\ "\n" \in Range(rules[i].regex) =>
                          \A k \in DOMAIN V : V[k].pattern_id # rules[i].id

\* C1 witness: the four-line content " Aa", "c", "a", "b" analysed with R1
\* ("a": twice in line 1, once in line 3) and R3 ("a\nb": only across lines
\* 3 and 4) registered.
C1_Witness ==
    /\ Returned("analyze_string")
    /\ call.text = LongContent
    /\ HasRule("R1") /\ HasRule("R3")
    /\ Cardinality({ k \in DOMAIN result.violations :
                       result.violations[k].pattern_id = "R1" }) = 2

\* C2: with include_info false, no returned result holds a violation of
\* severity info.
C2_NoInfoViolations ==
    (~include_info /\ call.op \in AnalysisOps /\ outcome = "returned") =>
        \A k \in DOMAIN result.violations : result.violations[k].severity # "info"

\* C2 witness: a directory analysed without info, with the info rule R5 (regex
\* "a") registered next to rules that report violations.
C2_Witness ==
    /\ ~include_info
    /\ Returned("analyze_directory")
    /\ HasRule("R5") /\ HasRule("R1")
    /\ Len(result.violations) > 0

\* The cases of C3: the path does not exist, its extension is not a
\* recognized one, or reading it fails.
Missing(raw_path)      == \A i \in DOMAIN FS : ~IsPrefix(Path(raw_path), FS[i].path)
Unrecognized(raw_path) ==
    lower(raw_path[Len(raw_path)].ext) \notin {".py", ".pyi", ".sql", ".json", ".ipynb"}
Unreadable(raw_path)   ==
    \E i \in DOMAIN FS : FS[i].path = Path(raw_path) /\ FS[i].read # "ok"

\* C3: analyze_file of a missing path, of a path with an unrecognized
\* extension or of an unreadable file returns no violations, files_analyzed
\* = 1 and patterns_checked = 0, and raises nothing.
C3_FileNoOp ==
    (call.op = "analyze_file"
        /\ (Missing(call.path) \/ Unrecognized(call.path) \/ Unreadable(call.path))) =>
        /\ outcome = "returned"
        /\ result = [violations |-> <<>>, files_analyzed |-> 1, patterns_checked |-> 0]

\* C3 witness: a file that does not decode, analysed by an engine that holds
\* rules.
C3_Witness ==
    /\ call.op = "analyze_file"
    /\ \E i \in DOMAIN FS : FS[i].path = call.path /\ FS[i].read = "UnicodeDecodeError"
    /\ HasRule("R1")

\* The last call again, on an engine with the given catalog and regex cache.
Replay(pats, cache) ==
    CASE call.op = "analyze_string" ->
            analyze_string(pats, include_info, cache, call.text, call.path)
      [] call.op = "analyze_file" ->
            analyze_file(pats, include_info, cache, call.path)
      [] call.op = "analyze_directory" ->
            analyze_directory(pats, include_info, cache, call.order,
                              call.path, call.recursive, call.exclude)

\* A rule whose regex text does not compile.
Inert(rule) == rule.regex # <<>> /\ re_compile(rule.regex) # "ok"

WithoutInert(pats) ==
    [i \in DOMAIN pats |->
        [category |-> pats[i].category,
         rules    |-> SelectSeq(pats[i].rules, LAMBDA r : ~Inert(r))]]

\* C4: on an engine that holds a rule whose regex does not compile, every
\* analysis returns, reports nothing for that rule, and reports for the other
\* rules what it would report without it.
C4_InvalidRegexInert ==
    (call.op \in AnalysisOps
        /\ \E i \in DOMAIN all_rules(patterns) : Inert(all_rules(patterns)[i])) =>
        /\ outcome = "returned"
        /\ \A k \in DOMAIN result.violations :
              \A i \in DOMAIN all_rules(patterns) :
                  Inert(all_rules(patterns)[i]) =>
                      result.violations[k].pattern_id # all_rules(patterns)[i].id
        /\ result.violations =
              Replay(WithoutInert(patterns), compiled_patterns).result.violations

\* The number of rules in the catalog, over all categories.
TotalRules == SeqSum([i \in DOMAIN patterns |-> Len(patterns[i].rules)])

Recognized(path) ==
    path[Len(path)].stem # "" /\ lower(path[Len(path)].ext) \in ALL_EXTENSIONS

\* A readable regular file with a recognized extension.
ReadableFile(path) ==
    \E i \in DOMAIN FS :
        FS[i].path = path /\ FS[i].kind = "file" /\ FS[i].read = "ok" /\ Recognized(path)

\* The entries below a directory.
Below(directory) ==
    { i \in DOMAIN FS : IsPrefix(directory, FS[i].path) /\ Len(FS[i].path) > Len(directory) }

\* The directory holds one entry, an eligible file, and none of its lines
\* matches any rule of the catalog.
HoldsOneQuietFile(directory) ==
    /\ Cardinality(Below(directory)) = 1
    /\ \A i \in Below(directory) :
          /\ ReadableFile(FS[i].path)
          /\ \A n \in DOMAIN splitlines(FS[i].content) :
                \A r \in DOMAIN all_rules(patterns) :
                    ~Matches(all_rules(patterns)[r], splitlines(FS[i].content)[n])

\* C5: after analyze_string, or analyze_file of a readable file with a
\* recognized extension, patterns_checked is the number of rules in the
\* catalog; a directory holding one eligible file that matches no rule gives
\* no violations, files_analyzed = 1 and patterns_checked = that number.
C5_PatternsCheckedCountsRules ==
    /\ (Returned("analyze_string")
          \/ (Returned("analyze_file") /\ ReadableFile(Path(call.path)))) =>
          result.patterns_checked = TotalRules
    /\ (Returned("analyze_directory") /\ HoldsOneQuietFile(Path(call.path))) =>
          result = [violations |-> <<>>, files_analyzed |-> 1,
                    patterns_checked |-> TotalRules]

\* C5 witness: the directory proj/one, whose one file matches nothing,
\* analysed with rules in two categories, among them one without a regex and
\* an info rule the filter skips.
C5_Witness ==
    /\ Returned("analyze_directory")
    /\ HoldsOneQuietFile(Path(call.path))
    /\ ~include_info
    /\ Len(patterns) = 2 /\ TotalRules = 4
    /\ HasRule("R5") /\ HasRule("R6")

\* The paths analyze_directory is to consider: below the directory (direct
\* children only when not recursive).
InScope(path) ==
    /\ IsPrefix(Path(call.path), path)
    /\ IF call.recursive THEN Len(path) > Len(Path(call.path))
                         ELSE Len(path) = Len(Path(call.path)) + 1

\* C6: after analyze_directory, files_analyzed is the number of files in
\* scope with a recognized extension, less those that match an exclusion
\* glob.
C6_FilesAnalyzedCount ==
    Returned("analyze_directory") =>
        result.files_analyzed =
            Cardinality({ i \in DOMAIN FS :
                            /\ FS[i].kind = "file"
                            /\ InScope(FS[i].path)
                            /\ FS[i].path[Len(FS[i].path)].ext \in ALL_EXTENSIONS
                            /\ ~excluded(FS[i].path, effective_excludes(call.exclude)) })

\* Directory names the default exclusion globs name.
DefaultExcludedNames == {"venv", ".venv", "node_modules", "__pycache__", ".git"}

\* The path lies, at some depth, beneath a directory of such a name.
BeneathExcluded(path) ==
    \E k \in 1..(Len(path) - 1) :
        path[k].ext = "" /\ path[k].stem \in DefaultExcludedNames

\* C7: with the default exclusions, the result of analyze_directory is that
\* of analysing the enumerated paths that do not lie beneath a directory
\* named venv, .venv, node_modules, __pycache__ or .git: the others add
\* nothing to files_analyzed, patterns_checked or violations.
C7_DefaultExcludesDependencyDirs ==
    (Returned("analyze_directory") /\ call.exclude = <<>>) =>
        result =
            run_files(SelectSeq(iter_files(Path(call.path), call.recursive, call.order),
                                LAMBDA path : ~BeneathExcluded(path)),
                      1, patterns, include_info, DEFAULT_EXCLUDES,
                      compiled_patterns, AnalysisResult(0)).result

\* C8: whatever the engine analysed before, an analysis ends as it does on
\* a fresh engine with the same catalog, and as it does when it is run again
\* on the same engine: the same violations in the same order, the same
\* counters.
C8_IndependentOfHistory ==
    call.op \in AnalysisOps =>
        LET fresh == Replay(patterns, <<>>)
            again == Replay(patterns, compiled_patterns)
        IN  IF outcome = "returned"
            THEN /\ fresh.raised = "none" /\ fresh.result = result
                 /\ again.raised = "none" /\ again.result = result
            ELSE fresh.raised = outcome /\ again.raised = outcome

\* C8 witness: an analysis that found violations on an engine whose cache
\* holds a regex of no current rule, compiled by an earlier analysis under
\* another catalog.
C8_Witness ==
    /\ Returned("analyze_string")
    /\ Len(result.violations) > 0
    /\ \E key \in DOMAIN compiled_patterns :
          \A i \in DOMAIN all_rules(patterns) : all_rules(patterns)[i].regex # key

\* Where a rule is registered: the place of its category in the catalog and
\* its place in the category's list.
Rank(id) ==
    CHOOSE p \in UNION { { <<i, j>> : j \in DOMAIN patterns[i].rules } :
                           i \in DOMAIN patterns } :
        patterns[p[1]].rules[p[2]].id = id

ComesBefore(v, w) ==
    LET a == Rank(v.pattern_id)
        b == Rank(w.pattern_id)
    IN  \/ a[1] < b[1]
        \/ a[1] = b[1] /\ a[2] < b[2]
        \/ a = b /\ v.line_number < w.line_number

\* C9: the violations of one string or file come in registration order of
\* their rules (category order, then rule order in the category) and, for
\* one rule, in ascending line order.
C9_RuleOrderThenLineOrder ==
    (Returned("analyze_string") \/ Returned("analyze_file")) =>
        \A k \in 1..(Len(result.violations) - 1) :
            ComesBefore(result.violations[k], result.violations[k + 1])

\* C9 witness: violations of three rules from two categories, the line
\* numbers of two neighbours descending: the list is not sorted by line.
C9_Witness ==
    /\ Returned("analyze_string")
    /\ Cardinality({ result.violations[k].pattern_id : k \in DOMAIN result.violations }) = 3
    /\ Cardinality({ Rank(result.violations[k].pattern_id)[1] :
                       k \in DOMAIN result.violations }) = 2
    /\ \E k \in 1..(Len(result.violations) - 1) :
          result.violations[k].line_number > result.violations[k + 1].line_number

\* The text in a file, as analyze_string would be handed it.
ContentOf(path) == FS[CHOOSE i \in DOMAIN FS : FS[i].path = path].content

\* C10 as claimed: analyze_file(path) returns what analyze_string(content,
\* file_name=str(path)) returns on the same engine.
C10_FileEqualsStringOfGivenPath ==
    (Returned("analyze_file") /\ ReadableFile(Path(call.path))) =>
        result = analyze_string(patterns, include_info, compiled_patterns,
                                ContentOf(Path(call.path)), call.path).result

\* C10, amended: analyze_file(path) returns what analyze_string(content,
\* file_name=str(Path(path))) returns on the same engine: the same violations,
\* files_analyzed and patterns_checked.
C10_FileEqualsStringOfNormalizedPath ==
    (Returned("analyze_file") /\ ReadableFile(Path(call.path))) =>
        result = analyze_string(patterns, include_info, compiled_patterns,
                                ContentOf(Path(call.path)), Path(call.path)).result

\* C10 witness: proj/a.py, given as "./proj/a.py", analysed with violations.
C10_Witness ==
    /\ Returned("analyze_file")
    /\ ReadableFile(Path(call.path))
    /\ call.path # Path(call.path)
    /\ Len(result.violations) > 0

\* The paths analyze_directory enumerated and did not exclude, in enumeration
\* order.
Survivors ==
    SelectSeq(iter_files(Path(call.path), call.recursive, call.order),
              LAMBDA path : ~excluded(path, effective_excludes(call.exclude)))

\* What analyze_file returns for each of them, taken by itself.
FileResults ==
    [k \in DOMAIN Survivors |->
        analyze_file(patterns, include_info, <<>>, Survivors[k]).result]

\* C11: the result of analyze_directory adds up the analyze_file results of
\* the enumerated paths that no exclusion glob matches: files_analyzed and
\* patterns_checked are their sums, violations their concatenation in
\* enumeration order, each file's violations together and in its own order.
C11_DirectoryAddsFileResults ==
    Returned("analyze_directory") =>
        /\ result.files_analyzed =
              SeqSum([k \in DOMAIN FileResults |-> FileResults[k].files_analyzed])
        /\ result.patterns_checked =
              SeqSum([k \in DOMAIN FileResults |-> FileResults[k].patterns_checked])
        /\ result.violations =
              Flatten([k \in DOMAIN FileResults |-> FileResults[k].violations])

\* C11 witness: a directory analysed with the extensions taken in the second
\* order, an excluded path among those enumerated, violations from two
\* files, and, among the files analysed, both files that ran the rules and
\* files that did not.
C11_Witness ==
    /\ Returned("analyze_directory")
    /\ call.order[1] = ".ipynb"
    /\ Len(Survivors) < Len(iter_files(Path(call.path), call.recursive, call.order))
    /\ Cardinality({ result.violations[k].file_path : k \in DOMAIN result.violations }) >= 2
    /\ \E k \in DOMAIN FileResults : FileResults[k].patterns_checked = 0
    /\ TotalRules >= 2
    /\ result.patterns_checked >= 2 * TotalRules

\* C12: the rules array of to_sarif holds every pattern_id that occurs in
\* the violations exactly once and no other id, and the ruleId of every
\* emitted result is the id of an entry of that array.
C12_SarifRulesAreTheDistinctIds ==
    Returned("to_sarif") =>
        /\ \A k \in DOMAIN result.violations :
              Cardinality({ n \in DOMAIN output.rules :
                              output.rules[n].id = result.violations[k].pattern_id }) = 1
        /\ \A n \in DOMAIN output.rules :
              \E k \in DOMAIN result.violations :
                  result.violations[k].pattern_id = output.rules[n].id
        /\ Len(output.results) = Len(result.violations)
        /\ \A k \in DOMAIN output.results :
              /\ output.results[k].ruleId = result.violations[k].pattern_id
              /\ \E n \in DOMAIN output.rules : output.rules[n].id = output.results[k].ruleId

\* C12 witness: a SARIF report of three violations, two of them of one rule.
C12_Witness ==
    /\ Returned("to_sarif")
    /\ Len(result.violations) = 3
    /\ Len(output.rules) = 2

\* The lines of a text: every line feed ends one.
RECURSIVE lines_from(_, _, _)
lines_from(text, cur, acc) ==
    IF text = <<>> THEN (IF cur = <<>> THEN acc ELSE Append(acc, cur))
    ELSE IF Head(text) = "\n" THEN lines_from(Tail(text), <<>>, Append(acc, cur))
    ELSE lines_from(Tail(text), Append(cur, Head(text)), acc)

OutputLines == lines_from(written(output), <<>>, <<>>)

\* A message with every "%" written %25 and every line feed written %0A.
Escaped(message) ==
    Flatten([i \in DOMAIN message |->
                CASE message[i] = "%"  -> <<"%", "25">>
                  [] message[i] = "\n" -> <<"%", "0A">>
                  [] OTHER             -> <<message[i]>>])

\* The annotation of a violation: ::{level} file=F,line=N::{id}: {message}.
AnnotationOf(v) ==
    <<"::", IF v.severity = "error" THEN "error" ELSE "warning", " file=">>
    \o str_path(v.file_path)
    \o <<",line=", ToString(v.line_number), "::", v.pattern_id, ": ">>
    \o Escaped(v.description)

\* C13: the output of to_github_actions has as many lines as the result has
\* violations, and line k is the annotation of violation k: level error for
\* severity error and warning for any other, the message with "%" and line
\* feed escaped.
C13_OneAnnotationLinePerViolation ==
    Returned("to_github_actions") =>
        /\ Len(OutputLines) = Len(result.violations)
        /\ \A k \in DOMAIN result.violations :
              OutputLines[k] = AnnotationOf(result.violations[k])

\* C14: format_summary reports FAIL when the result holds a violation of
\* severity error and PASS when it holds none, whatever its other violations
\* and its files_analyzed.
C14_FailIffErrors ==
    Returned("format_summary") =>
        output[2] = IF \E k \in DOMAIN result.violations :
                          result.violations[k].severity = "error"
                    THEN "FAIL" ELSE "PASS"

\* C14 witness: a summary PASS for a result with warning and info violations
\* and no error, over three files.
C14_Witness ==
    /\ Returned("format_summary")
    /\ output[2] = "PASS"
    /\ result.files_analyzed = 3
    /\ \E k \in DOMAIN result.violations : result.violations[k].severity = "warning"
    /\ \E k \in DOMAIN result.violations : result.violations[k].severity = "info"

\* The violations of the result, those of severity error first, then the
\* warnings, then the infos, each group in result order.
GroupedBySeverity ==
    SelectSeq(result.violations, LAMBDA v : v.severity = "error")
    \o SelectSeq(result.violations, LAMBDA v : v.severity = "warning")
    \o SelectSeq(result.violations, LAMBDA v : v.severity = "info")

\* The strings of a text report that render violations: three per violation.
RenderedViolations ==
    SelectSeq(output, LAMBDA printed :
        printed # <<>> /\ printed[1] \in {"\n[", "  Location: ", "  Line: "})

CountOf(severity) ==
    Cardinality({ k \in DOMAIN result.violations :
                    result.violations[k].severity = severity })

\* C16: the report of to_text starts with a header whose totals are the
\* result's counters, then renders every violation once, the errors first,
\* then the warnings, then the infos, each group in result order; the line
\* shown for a violation is the first 80 characters of its stripped line
\* content, all of it when it is shorter.
C16_TextReportGroupsBySeverity ==
    Returned("to_text") =>
        /\ output[4] = <<"Files analyzed: ", ToString(result.files_analyzed)>>
        /\ output[5] = <<"Patterns checked: ", ToString(result.patterns_checked)>>
        /\ output[6] = <<"Total violations: ", ToString(Len(result.violations))>>
        /\ output[7] = <<"  Errors: ", ToString(CountOf("error"))>>
        /\ output[8] = <<"  Warnings: ", ToString(CountOf("warning"))>>
        /\ output[9] = <<"  Info: ", ToString(CountOf("info"))>>
        /\ \A n \in 1..10 : \A printed \in Range(RenderedViolations) : output[n] # printed
        /\ Len(RenderedViolations) = 3 * Len(result.violations)
        /\ \A k \in DOMAIN GroupedBySeverity :
              LET v        == GroupedBySeverity[k]
                  stripped == strip(v.line_content)
                  shown    == Tail(RenderedViolations[3 * k])
              IN  /\ RenderedViolations[3 * k - 2] =
                        <<"\n[", v.pattern_id, "] ">> \o v.description
                  /\ RenderedViolations[3 * k - 1] =
                        <<"  Location: ">> \o str_path(v.file_path)
                        \o <<":", ToString(v.line_number)>>
                  /\ RenderedViolations[3 * k][1] = "  Line: "
                  /\ Len(shown) <= 80
                  /\ Len(shown) = (IF Len(stripped) < 80 THEN Len(stripped) ELSE 80)
                  /\ shown = SubSeq(stripped, 1, Len(shown))

\* C16 witness: a text report of an info, a warning and an error violation,
\* given in that order, the error on a line longer than 80 characters.
C16_Witness ==
    /\ Returned("to_text")
    /\ Len(result.violations) = 3
    /\ result.violations[1].severity = "info"
    /\ result.violations[2].severity = "warning"
    /\ result.violations[3].severity = "error"
    /\ Len(strip(result.violations[3].line_content)) > 80
    /\ Len(RenderedViolations[3]) = 81

\* C15: whatever the path, the options and the format, cmd_analyze returns,
\* and returns 1 when the analysis found a violation of severity error and 0
\* when it found none.
C15_ExitCodeFollowsErrorCount ==
    call.op = "cmd_analyze" =>
        /\ outcome = "returned"
        /\ output.exit_code =
              IF \E k \in DOMAIN result.violations :
                    result.violations[k].severity = "error"
              THEN 1 ELSE 0

AnalyzerOps == {"PythonAnalyzer.analyze", "SQLAnalyzer.analyze", "JSONAnalyzer.analyze"}

\* The content of the call is one its analyzer's parser rejects.
FailsToParse ==
    \/ call.op = "PythonAnalyzer.analyze" /\ ast_parse(call.text).raised # "none"
    \/ call.op = "JSONAnalyzer.analyze" /\ json_loads(call.text).raised # "none"

\* C17: whatever the content, parsed or not and whatever the parsed value
\* looks like, each of the three analyze methods returns a sequence of
\* findings and never raises, and content that fails to parse yields the
\* empty sequence.
C17_AnalyzersNeverRaise ==
    call.op \in AnalyzerOps =>
        /\ outcome = "returned"
        /\ FailsToParse => output = <<>>

\* The findings of the call that carry a rule id.
Count(rule_id) == Len(SelectSeq(output, LAMBDA f : f.rule_id = rule_id))

\* The keys a registry is written under by mistake.
WrongKeys == {<<"servers">>, <<"mcp_", "servers">>}

\* The servers of a mapping whose url is a genie endpoint without a space
\* id, and those whose url is a vector-search endpoint without catalog and
\* schema.
UrlOf(servers, i) == get(servers.items[i].value, <<"url">>, JNull)

HasUrl(servers, i) ==
    /\ servers.items[i].value.t = "dict"
    /\ has_key(servers.items[i].value, <<"url">>)
    /\ UrlOf(servers, i).t = "str"

BadGenie(servers) ==
    {i \in DOMAIN servers.items :
        /\ HasUrl(servers, i)
        /\ contains(UrlOf(servers, i).s, <<"mcp", "/", "genie">>)
        /\ ~has_genie_space(UrlOf(servers, i).s)}

BadVectorSearch(servers) ==
    {i \in DOMAIN servers.items :
        /\ HasUrl(servers, i)
        /\ contains(UrlOf(servers, i).s, <<"vector-search">>)
        /\ ~has_vector_search_path(UrlOf(servers, i).s)}

\* C18: for a registry written under "servers" or "mcp_servers" instead of
\* "mcpServers", the JSON analyzer returns one wrong-key error (MCP004) and,
\* for each server registered under that key, the URL error of a genie
\* endpoint without space id (MCP002) and of a vector-search endpoint
\* without catalog and schema (MCP001); so the registry
\* {"servers": {"x": {"url": "https://h/api/2.0/mcp/genie"}}} gives exactly
\* one MCP004 and one MCP002.
C18_WrongKeyStillChecksUrls ==
    Returned("JSONAnalyzer.analyze") /\ ~FailsToParse =>
        LET data == json_loads(call.text).data
        IN  \A key \in WrongKeys :
                ( /\ data.t = "dict"
                  /\ has_key(data, key)
                  /\ \A other \in (WrongKeys \cup {<<"mcpServers">>}) \ {key} :
                        ~has_key(data, other)
                  /\ get(data, key, JNull).t = "dict" )
                => /\ Count("MCP004") = 1
                   /\ Count("MCP002") = Cardinality(BadGenie(get(data, key, JNull)))
                   /\ Count("MCP001") = Cardinality(BadVectorSearch(get(data, key, JNull)))
                   /\ Len(output) = Count("MCP004") + Count("MCP002") + Count("MCP001")

\* The lines the SQL analyzer looked at.
SqlLinesOf(content) == splitlines([i \in DOMAIN content |-> upper(content[i])])

\* The name that starts at piece g of a line goes on with a ".": it is
\* written schema.table or catalog.schema.table.
Dotted(line, g) == g < Len(line) /\ line[g + 1] = "."

\* The finding is about the reference made by the keyword at piece i.
Reports(f, line, i) ==
    /\ line[i] \in TableKeywords
    /\ offset(line, i) = f.column
    /\ after_space(line, i) # 0
    /\ f.message = <<"Table '", line[after_space(line, i)], "' not fully qualified">>

\* C19: the SQL analyzer gives a UC001 warning only for a reference after
\* FROM, JOIN, INTO or UPDATE whose name holds no "." and is not in the
\* keyword-exclusion set; a reference written catalog.schema.table gives
\* no UC001 finding.
C19_OnlyUnqualifiedNamesFlagged ==
    Returned("SQLAnalyzer.analyze") =>
        \A k \in DOMAIN output :
            output[k].rule_id = "UC001" =>
                LET line == SqlLinesOf(call.text)[output[k].line]
                IN  /\ output[k].severity = "warning"
                    /\ \E i \in DOMAIN line :
                          /\ Reports(output[k], line, i)
                          /\ ~Dotted(line, after_space(line, i))
                          /\ line[after_space(line, i)] \notin NotTables

\* The strings of a parsed value that have the shape of a token: the value
\* itself, the values of a mapping, the elements of a sequence.
RECURSIVE TokenStrings(_)
TokenStrings(value) ==
    IF value.t = "str" THEN (IF is_pat_token(value.s) THEN 1 ELSE 0)
    ELSE IF value.t = "dict"
         THEN SeqSum([i \in DOMAIN value.items |-> TokenStrings(value.items[i].value)])
    ELSE IF value.t = "list"
         THEN SeqSum([i \in DOMAIN value.items |-> TokenStrings(value.items[i])])
    ELSE 0

\* C20: the JSON analyzer gives one AUTH003 error for every string value of
\* the parsed tree that is "dapi" and 32 or more letters and digits, at any
\* depth, under a mapping key or inside a sequence, also when the top-level
\* value is a sequence.
C20_TokenFlaggedAnywhere ==
    /\ Returned("JSONAnalyzer.analyze")
    /\ ~FailsToParse
    /\ json_loads(call.text).data.t \in {"dict", "list"}
    =>
        /\ Count("AUTH003") = TokenStrings(json_loads(call.text).data)
        /\ \A k \in DOMAIN output :
              output[k].rule_id = "AUTH003" => output[k].severity = "error"

SelectStarLine == <<"SELECT", " ", "*", " ", "FROM", " ", "my_table">>

\* C21: on the single line SELECT * FROM my_table the SQL analyzer returns
\* exactly three findings, all on line 1: the SELECT * warning (SQL008),
\* the missing-LIMIT info finding (SQL006) and the not-fully-qualified
\* warning (UC001) for my_table.
C21_SelectStarGivesThreeFindings ==
    Returned("SQLAnalyzer.analyze") /\ call.text = SelectStarLine =>
        /\ Len(output) = 3
        /\ \A k \in DOMAIN output : output[k].line = 1
        /\ Count("SQL008") = 1 /\ Count("SQL006") = 1 /\ Count("UC001") = 1
        /\ \A k \in DOMAIN output :
              /\ output[k].rule_id = "SQL008" => output[k].severity = "warning"
              /\ output[k].rule_id = "SQL006" => output[k].severity = "info"
              /\ output[k].rule_id = "UC001" =>
                    /\ output[k].severity = "warning"
                    /\ output[k].message = <<"Table '", upper("my_table"), "' not fully qualified">>

C21_Witness ==
    Returned("SQLAnalyzer.analyze") /\ call.text = SelectStarLine /\ Len(output) = 3

\* The SQL006 findings of the call on line n.
MissingLimitOn(n) ==
    Len(SelectSeq(output, LAMBDA f : f.rule_id = "SQL006" /\ f.line = n))

\* The SELECT keywords of a line.
SelectWords(line) == Cardinality({i \in DOMAIN line : line[i] = "SELECT"})

\* C22: the SQL analyzer gives the missing-LIMIT info finding (SQL006) for
\* every line that holds exactly one SELECT and no LIMIT keyword, and none
\* for a line that holds LIMIT or more than one SELECT.
C22_MissingLimitOnSingleSelect ==
    Returned("SQLAnalyzer.analyze") =>
        LET lines == SqlLinesOf(call.text)
        IN  \A n \in DOMAIN lines :
                /\ (SelectWords(lines[n]) = 1 /\ "LIMIT" \notin Range(lines[n]))
                      => MissingLimitOn(n) = 1
                /\ (SelectWords(lines[n]) > 1 \/ "LIMIT" \in Range(lines[n]))
                      => MissingLimitOn(n) = 0
                /\ \A k \in DOMAIN output :
                      output[k].rule_id = "SQL006" => output[k].severity = "info"

\* The places of a source where a plain string literal holding a token
\* starts: the quoted token, not prefixed as an f-string or a bytes literal.
TokenLiterals(content) ==
    LET literal == Quoted(PatToken)
    IN  { i \in DOMAIN content :
            /\ i + Len(literal) - 1 <= Len(content)
            /\ SubSeq(content, i, i + Len(literal) - 1) = literal
            /\ (i > 1 => content[i - 1] \notin {"f", "b"}) }

\* The line a piece of a source is on.
LineOf(content, i) == 1 + Cardinality({j \in 1..(i - 1) : content[j] = "\n"})

TokenFStrings(content) ==
    LET opening == <<"f", "\"">> \o PatToken
    IN  { i \in DOMAIN content :
            /\ i + Len(opening) <= Len(content)
            /\ SubSeq(content, i, i + Len(opening) - 1) = opening
            /\ content[i + Len(opening)] \in {"{", "\""} }

MCPConfigGenerator(workspace_host, catalog, schema, genie_space_id) ==
    [workspace_host |-> workspace_host, catalog |-> catalog, schema |-> schema,
     genie_space_id |-> genie_space_id]

\* Python's truth of an optional string: None and "" are false.
truthy(value) == value.t = "str" /\ value.s # <<>>

\* The f-string of an endpoint: the host, the path and the names, with a
\* "/" between two names; None is formatted as the word None.
formatted(value) == IF value.t = "null" THEN <<"None">> ELSE value.s

endpoint(self, path, names) ==
    JDict(<< [key |-> <<"url">>,
              value |-> JStr(formatted(self.workspace_host) \o <<path>>
                             \o (IF Len(names) = 2
                                 THEN formatted(names[1]) \o <<"/">> \o formatted(names[2])
                                 ELSE Flatten([i \in DOMAIN names |-> formatted(names[i])])))] >>)

\* json.dumps(value, indent=2) of strings and mappings: a member per line,
\* two spaces deeper at each level, and {} for the empty mapping.
RECURSIVE dumps(_, _)
dumps(value, level) ==
    LET margin(n) == [i \in 1..(2 * n) |-> " "]
        member(i) == margin(level + 1) \o Quoted(value.items[i].key) \o <<":", " ">>
                     \o dumps(value.items[i].value, level + 1)
                     \o (IF i < Len(value.items) THEN <<",", "\n">> ELSE <<"\n">>)
    IN  IF value.t = "str" THEN Quoted(value.s)
        ELSE IF value.items = <<>> THEN <<"{", "}">>
        ELSE <<"{", "\n">> \o Flatten([i \in DOMAIN value.items |-> member(i)])
             \o margin(level) \o <<"}">>

\* A generator that leaves out a server it lacks a parameter for, as
\* generate_claude_desktop does.
RECURSIVE url_based_lenient(_, _, _, _)
url_based_lenient(self, servers, i, mcp_servers) ==
    IF i > Len(servers) THEN [raised |-> "none", mcp_servers |-> mcp_servers]
    ELSE LET added(name, path, names) ==
                 url_based_lenient(self, servers, i + 1,
                     IF \A k \in DOMAIN names : truthy(names[k])
                     THEN dict_set(mcp_servers, name, endpoint(self, path, names))
                     ELSE mcp_servers)
         IN  CASE servers[i] = "sql" ->
                      added(<<"databricks-sql">>, "/api/2.0/mcp/sql", <<>>)
               [] servers[i] = "genie" ->
                      added(<<"databricks-genie">>, "/api/2.0/mcp/genie/",
                            <<self.genie_space_id>>)
               [] servers[i] = "vector-search" ->
                      added(<<"databricks-vector-search">>, "/api/2.0/mcp/vector-search/",
                            <<self.catalog, self.schema>>)
               [] servers[i] = "functions" ->
                      added(<<"databricks-uc-functions">>, "/api/2.0/mcp/functions/",
                            <<self.catalog, self.schema>>)
               [] OTHER -> url_based_lenient(self, servers, i + 1, mcp_servers)

generate_url_based_lenient(self, servers) ==
    [raised |-> "none",
     text   |-> dumps(JDict(<< [key |-> <<"mcpServers">>,
                                value |-> JDict(url_based_lenient(self, servers, 1, <<>>).mcp_servers)] >>), 0)]

\* The loop of generate_url_based from server i on: the first server that
\* lacks a parameter raises and ends the loop.
RECURSIVE url_based_from(_, _, _, _)
url_based_from(self, servers, i, mcp_servers) ==
    IF i > Len(servers) THEN [raised |-> "none", mcp_servers |-> mcp_servers]
    ELSE LET added(name, path, names) ==
                 url_based_from(self, servers, i + 1,
                                dict_set(mcp_servers, name, endpoint(self, path, names)))
             ValueError == [raised |-> "ValueError", mcp_servers |-> <<>>]
         IN  CASE servers[i] = "sql" ->
                      added(<<"databricks-sql">>, "/api/2.0/mcp/sql", <<>>)
               [] servers[i] = "genie" ->
                      IF ~truthy(self.genie_space_id) THEN ValueError
                      ELSE added(<<"databricks-genie">>, "/api/2.0/mcp/genie/",
                                 <<self.genie_space_id>>)
               [] servers[i] = "vector-search" ->
                      IF ~truthy(self.catalog) \/ ~truthy(self.schema) THEN ValueError
                      ELSE added(<<"databricks-vector-search">>,
                                 "/api/2.0/mcp/vector-search/",
                                 <<self.catalog, self.schema>>)
               [] servers[i] = "functions" ->
                      IF ~truthy(self.catalog) \/ ~truthy(self.schema) THEN ValueError
                      ELSE added(<<"databricks-uc-functions">>, "/api/2.0/mcp/functions/",
                                 <<self.catalog, self.schema>>)
               [] OTHER -> url_based_from(self, servers, i + 1, mcp_servers)

generate_url_based(self, servers) ==
    LET built == url_based_from(self, servers, 1, <<>>)
    IN  IF built.raised # "none" THEN [raised |-> built.raised, text |-> <<>>]
        ELSE [raised |-> "none",
              text   |-> dumps(JDict(<< [key |-> <<"mcpServers">>,
                                         value |-> JDict(built.mcp_servers)] >>), 0)]

\* The server kinds a caller asks for, one of them unknown to the generator.
ServerKinds == {"sql", "genie", "vector-search", "functions", "other"}

MaxServers == 2

ServerLists == UNION {[1..n -> ServerKinds] : n \in 0..MaxServers}

\* An optional string: unset, empty, or a name.
Optional(name) == {JNull, JStr(<<>>), JStr(<<name>>)}

Generators ==
    { MCPConfigGenerator(JStr(<<"https://host">>), catalog, schema, genie_space_id) :
        catalog \in Optional("main"), schema \in Optional("default"),
        genie_space_id \in Optional("space1") }

GenerateUrlBased ==
    /\ call.op = "none"
    /\ \E self \in Generators, servers \in ServerLists :
         \E done \in {generate_url_based(self, servers)} :
            /\ call' = [NoCall EXCEPT !.op = "generate_url_based", !.self = self,
                                      !.servers = servers]
            /\ outcome' = IF done.raised = "none" THEN "returned" ELSE done.raised
            /\ output' = done.text
    /\ UNCHANGED <<patterns, include_info, compiled_patterns, result, given_patterns, aliased>>

GeneratorInit == Init /\ include_info = FALSE
GeneratorNext == GenerateUrlBased
GeneratorSpec == GeneratorInit /\ [][GeneratorNext]_vars

\* The call asks for a server of the kind.
Asks(kind) == \E i \in DOMAIN call.servers : call.servers[i] = kind

\* An optional string is unset: None.
Unset(value) == value = JNull

\* C24: generate_url_based raises ValueError and returns no configuration
\* whenever the server list holds genie while genie_space_id is unset, or
\* holds vector-search or functions while catalog or schema is unset.
C24_MissingParameterRaises ==
    (/\ call.op = "generate_url_based"
     /\ \/ Asks("genie") /\ Unset(call.self.genie_space_id)
        \/ /\ Asks("vector-search") \/ Asks("functions")
           /\ Unset(call.self.catalog) \/ Unset(call.self.schema))
        => outcome = "ValueError" /\ output = <<>>

\* A list whose first server is generated and whose second lacks the
\* schema: the call raises.
C24_Witness ==
    /\ call.op = "generate_url_based"
    /\ call.servers = <<"sql", "functions">>
    /\ ~Unset(call.self.catalog)
    /\ Unset(call.self.schema)
    /\ outcome = "ValueError"
    /\ output = <<>>

\* ------------------------------------------------------------------ construction

\* The mappings a caller builds an engine from: none, the default catalog
\* and a catalog of one category.
Catalogs ==
    { <<>>,
      ALL_PATTERNS,
      << [category |-> "sql_execution", rules |-> RulesOf(<<1>>)] >> }

\* PatternEngine(patterns=given): self.patterns = patterns or {} keeps the
\* caller's mapping itself unless it is empty, and a new mapping otherwise.
PatternEngine(given) ==
    /\ patterns = given
    /\ given_patterns = given
    /\ aliased = (given # <<>>)
    /\ include_info = FALSE
    /\ compiled_patterns = <<>>
    /\ call = NoCall
    /\ outcome = "returned"
    /\ result = AnalysisResult(0)
    /\ output = <<>>

\* create_default_engine(): an engine of its own mapping, filled from
\* ALL_PATTERNS by add_patterns.
DefaultEngine ==
    /\ patterns = create_default_engine
    /\ given_patterns = ALL_PATTERNS
    /\ aliased = FALSE
    /\ include_info = FALSE
    /\ compiled_patterns = <<>>
    /\ call = NoCall
    /\ outcome = "returned"
    /\ result = AnalysisResult(0)
    /\ output = <<>>

CatalogInit == DefaultEngine \/ \E given \in Catalogs : PatternEngine(given)

CatalogNext ==
    \/ AddPatternsStep
    \/ AnalyzeStringStep
    \/ AnalyzeFileStep
    \/ AnalyzeDirectoryStep

CatalogSpec == CatalogInit /\ [][CatalogNext]_vars

\* C25: the engine never changes the rule catalog it was built from: after
\* PatternEngine(patterns=C) or create_default_engine(), every add_patterns
\* and analyze_* call leaves the caller's mapping (C, respectively
\* ALL_PATTERNS) with the categories and rules it had, so that a second
\* engine built from it gets the original rules.
C25_CatalogNeverMutated == [][given_patterns' = given_patterns]_vars

\* The violations of a severity in a list.
WithSeverity(violations, severity) ==
    Len(SelectSeq(violations, LAMBDA v : v.severity = severity))

\* C26: the derived views of an AnalysisResult agree with its violation
\* list: error_count, warning_count and info_count are the numbers of
\* violations in the list with that severity, and for a result produced
\* from a catalog of error, warning and info rules the three add up to the
\* number of violations. Here for the result an analyze command got from
\* the engine, and for the summary the JSON report gives of it.
C26_CountsAgreeWithViolations ==
    Returned("cmd_analyze") =>
        /\ error_count(result)   = WithSeverity(result.violations, "error")
        /\ warning_count(result) = WithSeverity(result.violations, "warning")
        /\ info_count(result)    = WithSeverity(result.violations, "info")
        /\ error_count(result) + warning_count(result) + info_count(result)
             = Len(result.violations)
        /\ (call.format = "json" /\ output.stderr = <<>>) =>
              LET summary == output.report.summary
                  listed  == output.report.violations
              IN  /\ listed = result.violations
                  /\ summary.errors   = WithSeverity(listed, "error")
                  /\ summary.warnings = WithSeverity(listed, "warning")
                  /\ summary.info     = WithSeverity(listed, "info")
                  /\ summary.total_violations = Len(listed)
                  /\ summary.errors + summary.warnings + summary.info
                       = summary.total_violations

\* A JSON report of a result with two violations of a rule of severity
\* error, and violations of the other two severities.
C26_Witness ==
    /\ Returned("cmd_analyze")
    /\ call.format = "json"
    /\ output.stderr = <<>>
    /\ output.report.summary.errors >= 2
    /\ output.report.summary.errors > error_rule_count(result)
    /\ output.report.summary.warnings >= 1
    /\ output.report.summary.info >= 1

\* The globs in effect for the call: the caller's when there
\* are any, the five defaults otherwise.
EffectiveGlobs == IF call.exclude = <<>> THEN DEFAULT_EXCLUDES ELSE call.exclude

\* The enumerated paths of the command's directory that none of them matches,
\* and what analyze_file returns for each.
Kept ==
    SelectSeq(iter_files(Path(call.path), call.recursive, call.order),
              LAMBDA path : \A i \in DOMAIN EffectiveGlobs :
                              ~path_match(path, EffectiveGlobs[i]))

KeptResults ==
    [k \in DOMAIN Kept |-> analyze_file(patterns, include_info, <<>>, Kept[k]).result]

\* C27: analyze_directory excludes by the caller's globs when there are any
\* and by the five default globs when the argument is left out or empty,
\* never by both: the analyze command without --exclude skips what the
\* defaults match, and with --exclude skips what the given globs match and
\* nothing else.
C27_CallerGlobsOrDefaults ==
    (Returned("cmd_analyze") /\ is_dir(Path(call.path))) =>
        /\ result.files_analyzed =
              SeqSum([k \in DOMAIN KeptResults |-> KeptResults[k].files_analyzed])
        /\ result.violations =
              Flatten([k \in DOMAIN KeptResults |-> KeptResults[k].violations])

\* The command with --exclude "*.sql" reports a violation in a file that a
\* default glob matches.
C27_Witness ==
    /\ Returned("cmd_analyze")
    /\ is_dir(Path(call.path))
    /\ call.exclude = << <<Suffixed(".sql")>> >>
    /\ \E k \in DOMAIN Kept :
          /\ excluded(Kept[k], DEFAULT_EXCLUDES)
          /\ \E v \in DOMAIN result.violations :
                result.violations[v].file_path = Kept[k]

\* The sum of a number per member of a set, the numbers given as a function.
RECURSIVE SetSum(_, _)
SetSum(set, number) ==
    IF set = {} THEN 0
    ELSE LET member == CHOOSE x \in set : TRUE
         IN  number[member] + SetSum(set \ {member}, number)

\* What analyze_file returns for a path, taken by itself.
FileResult(path) == analyze_file(patterns, include_info, <<>>, path).result

\* C28: one analyze_directory call analyses each file at most once: the
\* enumerations of the extensions have no path in common, so that every file
\* adds to files_analyzed, patterns_checked and violations once, in recursive
\* and in non-recursive mode.
C28_EachFileAnalysedOnce ==
    Returned("analyze_directory") =>
        LET files == iter_files(Path(call.path), call.recursive, call.order)
            kept  == Range(Survivors)
        IN  /\ \A i, j \in DOMAIN files : i # j => files[i] # files[j]
            /\ result.files_analyzed =
                  SetSum(kept, [path \in kept |-> FileResult(path).files_analyzed])
            /\ result.patterns_checked =
                  SetSum(kept, [path \in kept |-> FileResult(path).patterns_checked])
            /\ Len(result.violations) =
                  SetSum(kept, [path \in kept |-> Len(FileResult(path).violations)])
            /\ \A path \in kept :
                  SelectSeq(result.violations, LAMBDA v : v.file_path = path)
                    = FileResult(path).violations

\* A recursive analysis that enumerated a .py and a .pyi file, analysed both
\* and found violations.
C28_Witness ==
    /\ Returned("analyze_directory")
    /\ call.recursive
    /\ \E a, b \in Range(Survivors) :
          /\ a[Len(a)].ext = ".py" /\ FileResult(a).files_analyzed = 1
          /\ b[Len(b)].ext = ".pyi" /\ FileResult(b).files_analyzed = 1
    /\ result.files_analyzed >= 2
    /\ result.patterns_checked > 0
    /\ result.violations # <<>>

\* self.patterns.get(category): the rules of a category, or that it has none.
Active(pats, category) ==
    IF \E i \in DOMAIN pats : pats[i].category = category
    THEN [known |-> TRUE,
          rules |-> pats[CHOOSE i \in DOMAIN pats : pats[i].category = category].rules]
    ELSE [known |-> FALSE, rules |-> <<>>]

\* C29: add_patterns(category, rules) replaces: a call leaves the category
\* with exactly the list it was given, every other category with the rules
\* it had, and the regex cache as it was; so after any sequence of calls a
\* category has the list of the most recent call for it.
C29_AddPatternsReplaces ==
    [][call'.op = "add_patterns" =>
          /\ Active(patterns', call'.category) = [known |-> TRUE, rules |-> call'.rules]
          /\ \A other \in Categories \ {call'.category} :
                Active(patterns', other) = Active(patterns, other)
          /\ Len(patterns') <= Cardinality(Categories)
          /\ compiled_patterns' = compiled_patterns]_vars

\* add_patterns gave a category a new list on an engine of two categories
\* whose cache holds a regex of a rule that is no longer active.
C29_Witness ==
    /\ call.op = "add_patterns"
    /\ Len(patterns) = 2
    /\ call.rules # <<>>
    /\ Active(patterns, call.category).rules = call.rules
    /\ \E other \in Categories \ {call.category} : Active(patterns, other).rules # <<>>
    /\ \E key \in DOMAIN compiled_patterns :
          \A i \in DOMAIN all_rules(patterns) : all_rules(patterns)[i].regex # key

\* ------------------------------------------------------------------ refactoring

\* A query is written as its words, numbers, symbols and blanks, a piece
\* each. The pieces that are no word:
RefactorSymbols == {".", "*", "(", ")", ",", ";", "=", "+", "\"", "'", "{", "}", "%s"}
RefactorNumbers == {"1", "5", "10", "100", "101"}

\* re.search(r"\bSELECT\b", sql, re.IGNORECASE)
is_select(sql) == \E i \in DOMAIN sql : upper(sql[i]) = "SELECT"

\* re.search(r"\bLIMIT\s+\d+", sql, re.IGNORECASE): the word, blanks and a
\* number.
has_limit(sql) ==
    \E i, j \in DOMAIN sql :
        /\ upper(sql[i]) = "LIMIT"
        /\ j > i + 1
        /\ \A k \in (i + 1)..(j - 1) : sql[k] \in Whitespace
        /\ sql[j] \in RefactorNumbers

\* sql.strip().startswith("(")
is_subquery(sql) == lstrip(sql) # <<>> /\ Head(lstrip(sql)) = "("

\* Where the first match of (\s*;?\s*)$ starts: the number of pieces before
\* the longest end of the query made of blanks and at most one semicolon.
trailing_start(sql) ==
    LET trailing(p) ==
            /\ \A i \in (p + 1)..Len(sql) : sql[i] \in Whitespace \cup {";"}
            /\ Cardinality({i \in (p + 1)..Len(sql) : sql[i] = ";"}) <= 1
    IN  CHOOSE p \in 0..Len(sql) :
            trailing(p) /\ \A q \in 0..(p - 1) : ~trailing(q)

\* The text put in for a match: a line feed and the clause.
limit_clause(default_limit) == <<"\n", "LIMIT", " ", ToString(default_limit)>>

\* re.sub(r"(\s*;?\s*)$", clause + group 1, sql): every match is replaced,
\* and after a match that is not empty the pattern matches once more, empty,
\* at the end of the query.
sub_trailing(sql, default_limit) ==
    LET p == trailing_start(sql)
    IN  SubSeq(sql, 1, p) \o limit_clause(default_limit) \o SubSeq(sql, p + 1, Len(sql))
        \o (IF p < Len(sql) THEN limit_clause(default_limit) ELSE <<>>)

\* _add_limit_clause: the query and the change, <<>> for None.
add_limit_clause(default_limit, sql) ==
    IF is_select(sql) /\ ~has_limit(sql) /\ ~is_subquery(sql)
    THEN [sql    |-> sub_trailing(sql, default_limit),
          change |-> <<"Added LIMIT ", ToString(default_limit), " clause">>]
    ELSE [sql |-> sql, change |-> <<>>]

\* The table position of (\b(?:FROM|JOIN|INTO|UPDATE)\s+)([a-zA-Z_]\w*)
\* (\s|$|,|\)) for a keyword at piece i: the piece of the name, or 0 when
\* the pattern does not match there.
table_at(sql, i) ==
    IF upper(sql[i]) \notin {"FROM", "JOIN", "INTO", "UPDATE"} THEN 0
    ELSE LET after == {j \in (i + 2)..Len(sql) :
                         /\ \A k \in (i + 1)..(j - 1) : sql[k] \in Whitespace
                         /\ sql[j] \notin Whitespace}
         IN  IF after = {} THEN 0
             ELSE LET j == CHOOSE j \in after : TRUE
                  IN  IF /\ sql[j] \notin RefactorSymbols \cup RefactorNumbers
                         /\ (j = Len(sql) \/ sql[j + 1] \in Whitespace \cup {",", ")"})
                      THEN j ELSE 0

\* re.sub with replace_table from piece i on: a name that is no keyword gets
\* the catalog and the schema in front and is noted; the search goes on
\* behind the piece that ended the match.
RECURSIVE qualify_from(_, _, _, _)
qualify_from(sql, i, default_catalog, default_schema) ==
    IF i > Len(sql) THEN [sql |-> <<>>, changes_made |-> <<>>]
    ELSE LET j == table_at(sql, i)
         IN  IF j = 0
             THEN LET rest == qualify_from(sql, i + 1, default_catalog, default_schema)
                  IN  [sql |-> <<sql[i]>> \o rest.sql, changes_made |-> rest.changes_made]
             ELSE LET last == IF j = Len(sql) THEN j ELSE j + 1
                      rest == qualify_from(sql, last + 1, default_catalog, default_schema)
                      qualified == <<default_catalog, ".", default_schema, ".", sql[j]>>
                  IN  IF upper(sql[j]) \in {"SELECT", "WHERE", "SET", "VALUES", "ON",
                                           "AND", "OR"}
                      THEN [sql |-> SubSeq(sql, i, last) \o rest.sql,
                            changes_made |-> rest.changes_made]
                      ELSE [sql |-> SubSeq(sql, i, j - 1) \o qualified
                                    \o SubSeq(sql, j + 1, last) \o rest.sql,
                            changes_made |->
                                << <<"Qualified ", sql[j], " -> ">> \o qualified >>
                                \o rest.changes_made]

\* "; ".join(changes_made)
RECURSIVE join_changes(_)
join_changes(changes_made) ==
    IF Len(changes_made) = 1 THEN changes_made[1]
    ELSE changes_made[1] \o <<"; ">> \o join_changes(Tail(changes_made))

\* _qualify_table_names
qualify_table_names(default_catalog, default_schema, sql) ==
    LET done == qualify_from(sql, 1, default_catalog, default_schema)
    IN  IF done.changes_made # <<>>
        THEN [sql |-> done.sql, change |-> join_changes(done.changes_made)]
        ELSE [sql |-> sql, change |-> <<>>]

\* A piece that holds SELECT, FROM or WHERE, in either case.
holds_sql_word(piece) == upper(piece) \in {"SELECT", "FROM", "WHERE", "SELECTED"}

\* Pieces i < j of one line.
same_line(sql, i, j) == i < j /\ \A k \in i..j : sql[k] # "\n"

\* _detect_string_concat: the warnings of the three searches.
detect_string_concat(sql) ==
    LET quote(i) == sql[i] \in {"\"", "'"}
        after(i, found(_)) == \E j \in DOMAIN sql : same_line(sql, i, j) /\ found(j)
        fstring == \E i \in DOMAIN sql :
                      /\ i > 1 /\ sql[i - 1] = "f" /\ quote(i)
                      /\ after(i, LAMBDA j :
                            /\ sql[j] = "{"
                            /\ after(j, LAMBDA k :
                                  /\ sql[k] = "}"
                                  /\ after(k, LAMBDA m : holds_sql_word(sql[m]))))
        concat  == \E i \in DOMAIN sql :
                      /\ quote(i)
                      /\ after(i, LAMBDA j :
                            /\ sql[j] = "+"
                            /\ after(j, LAMBDA k : holds_sql_word(sql[k])))
        percent == \E i \in DOMAIN sql : sql[i] = "%s"
    IN  (IF fstring
         THEN <<<<"WARNING: Detected f-string SQL. Convert to parameterized query">>>>
         ELSE <<>>)
        \o (IF concat
            THEN <<<<"WARNING: Detected string concatenation in SQL. Use parameterized queries">>>>
            ELSE <<>>)
        \o (IF percent
            THEN <<<<"WARNING: Detected % formatting in SQL. Use :param style instead">>>>
            ELSE <<>>)

\* refactor: the three transformations in order, and the changes they name.
refactor(default_catalog, default_schema, default_limit, sql) ==
    LET limited   == add_limit_clause(default_limit, sql)
        qualified == qualify_table_names(default_catalog, default_schema, limited.sql)
        noted(change) == IF change # <<>> THEN <<change>> ELSE <<>>
    IN  [sql     |-> qualified.sql,
         changes |-> noted(limited.change) \o noted(qualified.change)
                     \o detect_string_concat(qualified.sql)]

\* Queries: qualified and not, in lower case, with a LIMIT and with a LIMIT
\* that has no number, a subquery, an update, a word that holds SELECT, a
\* join, concatenated and formatted text, and nothing.
QueryBodies ==
    { <<"SELECT", " ", "a", " ", "FROM", " ", "catalog", ".", "schema", ".", "table">>,
      <<"SELECT", " ", "a", " ", "FROM", " ", "t">>,
      <<"select", " ", "a", " ", "from", " ", "t">>,
      <<"SELECT", " ", "a", " ", "FROM", " ", "t", " ", "LIMIT", " ", "5">>,
      <<"SELECT", " ", "a", " ", "FROM", " ", "t", " ", "limit", " ", "x">>,
      <<"(", "SELECT", " ", "1", ")">>,
      <<"UPDATE", " ", "t", " ", "SET", " ", "a", " ", "=", " ", "1">>,
      <<"SELECTED">>,
      <<"SELECT", " ", "a", " ", "FROM", " ", "t", ",", " ", "u", " ", "JOIN", " ", "(",
        "SELECT", " ", "1", ")">>,
      <<"'", "x", "'", " ", "+", " ", "selected", " ", "%s">>,
      <<"SELECT", " ", "f", "\"", "{", "a", "}", " ", "FROM", " ", "SELECT", "\"">>,
      <<>> }

\* What a query starts and ends with.
QueryStarts == { <<>>, <<" ">> }
QueryEnds ==
    { <<>>, <<";">>, <<"\n">>, <<" ", ";", " ">>, <<";", ";">>, <<" ", " ">>, <<";", "\n">> }

Queries == { start \o body \o end : start \in QueryStarts, body \in QueryBodies,
                                    end \in QueryEnds }

DefaultLimits == {100, 5}

\* SQLRefactor("main", "default", default_limit).refactor(sql)
Refactor(default_limit, sql) ==
    /\ call.op = "none"
    /\ \E done \in {refactor("main", "default", default_limit, sql)} :
          /\ call' = [NoCall EXCEPT !.op = "refactor", !.text = sql,
                                    !.default_limit = default_limit]
          /\ outcome' = "returned"
          /\ output' = done
    /\ UNCHANGED <<patterns, include_info, compiled_patterns, result, given_patterns, aliased>>

RefactorStep == \E default_limit \in DefaultLimits, sql \in Queries : Refactor(default_limit, sql)

RefactorInit == Init /\ include_info = FALSE
RefactorNext == RefactorStep
RefactorSpec == RefactorInit /\ [][RefactorNext]_vars

\* The LIMIT clauses of a query that name the number.
LimitClauses(sql, number) ==
    Cardinality({i \in 1..(Len(sql) - 2) :
                   /\ sql[i] = "LIMIT" /\ sql[i + 1] = " "
                   /\ sql[i + 2] = ToString(number)})

\* The blanks and the semicolon a query ends with.
TrailingPart(sql) == SubSeq(sql, trailing_start(sql) + 1, Len(sql))

\* The last pieces of a text.
EndsWith(text, end) ==
    /\ Len(end) <= Len(text)
    /\ SubSeq(text, Len(text) - Len(end) + 1, Len(text)) = end

\* C30: for a query that holds SELECT, has no LIMIT n clause and does not
\* start with "(", refactor puts in exactly one LIMIT default_limit clause,
\* before the semicolon and blanks the query ends with, and notes exactly
\* one "Added LIMIT" change.
C30_OneLimitClauseAdded ==
    (/\ Returned("refactor")
     /\ is_select(call.text) /\ ~has_limit(call.text) /\ ~is_subquery(call.text)) =>
        /\ LimitClauses(output.sql, call.default_limit) = 1
        /\ EndsWith(output.sql,
                    limit_clause(call.default_limit) \o TrailingPart(call.text))
        /\ Cardinality({k \in DOMAIN output.changes :
                          output.changes[k][1] = "Added LIMIT "}) = 1


====
